---------------------------- MODULE Spec2Model ----------------------------
(***************************************************************************)
(* The paged record store (capnp_manager.py: CapnpManager, CapnpTable) and *)
(* the sort-merge tree builder (data_manager.py: DataManager.register) of  *)
(* jageocoder-converter.                                                   *)
(*                                                                         *)
(* Ten specifications share the variables:                                *)
(*   Spec       one CapnpTable object driven by create, append_records,    *)
(*              update_records and get_record;                             *)
(*   SpecRead   Spec with retrieve_records as a fifth call;                *)
(*   SpecCache  get_page_mmap alone over a store of CachePages page files; *)
(*   SpecReg    DataManager.register over sorted lines of NumRegions       *)
(*              regions, writing into the node table;                      *)
(*   SpecText   the same over one region whose lines vary in spelling,     *)
(*              priority, coordinates and note, and may be malformed;      *)
(*   SpecLive   SpecReg over shorter lines, with the fairness of a         *)
(*              sequential run;                                            *)
(*   SpecSort   register over one region whose lines are read in any       *)
(*              order and sorted by sort_data;                             *)
(*   SpecIndex  register and DataManager.create_trie_index over one region *)
(*              and an alias table;                                        *)
(*   SpecScan   SpecIndex without aliases, over lines whose first element  *)
(*              has any level;                                             *)
(*   SpecBuild  convert() from the list of enabled converters on:          *)
(*              write_datasets, register, create_index.                    *)
(*                                                                         *)
(* jageocoder is not part of the repository.  What the model takes from    *)
(* it: the AddressLevel numbers; a trie that numbers its n keys 0..n-1 in  *)
(* an order of its own; a standardize that maps "A" to "a".                *)
(*                                                                         *)
(* pycapnp is not part of the repository.  What the model takes from it:   *)
(* a list index out of range raises; a message read through a mapping that *)
(* is shorter than the message raises; whether "reader + list" is defined  *)
(* is left open (list_add).                                                *)
(***************************************************************************)
EXTENDS Integers, Sequences, FiniteSets, TLC

(***************************************************************************)
(* Bounds.  PAGE_SIZE is CapnpManager.PAGE_SIZE (500000 in the source),    *)
(* scaled down so that page boundaries are crossed by short inputs.        *)
(***************************************************************************)
PAGE_SIZE == 2
\* Spec: the largest number of records the table is driven to.
MaxRecs == 4
\* Spec: the largest number of records appended after a second create.
MaxAgain == 1
\* Spec: the longest list handed to one append_records call.
MaxAppend == 3
\* Spec: the largest number of positions in one update_records call.
MaxUpd == 2
\* SpecCache: the number of page files of the store.
CachePages == 12
\* SpecCache: the number of get_page_mmap calls.
MaxReq == 13

\* SpecReg: the number of lines read, over all regions.
MaxLines == 3
\* SpecReg: the largest number of address elements in a line.
MaxDepth == 3
\* SpecReg: the address levels are 1..MaxLevel.
MaxLevel == 2
\* SpecReg: the number of regions (prefecture codes) in targets.
NumRegions == 2
\* SpecLive: the largest number of address elements in a line.
LiveDepth == 2
\* SpecIndex: the number of lines of the region.
MaxIndexLines == 2
\* SpecIndex: the number of id assignments tried for a trie.
MaxShift == 2
\* The longest element path of a line of SpecText.
TextDepth == 2
\* SpecBuild: the most elements below the prefecture in the line of the
\* text.
BuildDepth == 1
\* SpecScan: the most elements of a line, and the most lines of the text.
ScanDepth == 2
ScanLines == 2

\* The cap of page_cache: "if len(self.page_cache) > 10".
CACHE_LIMIT == 10

Min(a, b) == IF a < b THEN a ELSE b
Max(a, b) == IF a > b THEN a ELSE b

\* Page numbers.  SpecCache writes pages 0..CachePages-1; the last number is
\* a page path whose file is never written.
PageNos ==
    0..Max(Max(CachePages, (MaxRecs + MaxAgain) \div PAGE_SIZE + 1),
           (MaxLines * MaxDepth + 1) \div PAGE_SIZE + 1)

\* The fields of the records of the table driven by Spec.
Fields == {"f", "g"}

VARIABLES
    pages,       \* page number -> records of page_NNN.bin; <<>>: no such file
    cfg_file,    \* config.json: <<length>>; <<>>: no such file
    cfg_cache,   \* the dict get_config() has cached: <<length>>; <<>>: none
    page_cache,  \* CapnpManager.page_cache, oldest first
    open_maps,   \* page paths with a live PageReader (mmap and file open)
    ret,         \* the last call, whether it returned (ok) or raised, and in
                 \* arg: the pages an update_records's positions lie in, the
                 \* path of a get_page_mmap
    R,           \* ghost: the records appended since the last create
    serial,      \* ghost: the number of records appended to the object so far
    hist,        \* ghost: the shape of the call sequence so far
    recency,     \* ghost: requested page paths, least recently requested first
    nreq,        \* SpecCache: the number of get_page_mmap calls made
    list_add,    \* the installed pycapnp: whether its list reader has "+"
    pc,          \* SpecReg: where register() is
    targets,     \* DataManager.targets: the number of regions not opened yet
    cur_id,      \* DataManager.cur_id
    node_array,  \* DataManager.node_array, the records not yet in the table
    open_nodes,  \* DataManager.nodes, the open ancestors: key and id, in
                 \* insertion order
    prev_key,    \* DataManager.prev_key
    update_array,\* DataManager.update_array: id -> field changes
    last_line,   \* SpecReg: the line read last from tmp_text; <<>>: none
    nlines,      \* SpecReg: the number of lines read
    records,     \* SpecSort: sort_data's list of the region's lines, as read
    tmp_text,    \* SpecSort: DataManager.tmp_text, the sorted lines
    aliases,     \* data/aliases.json: name -> alternative names
    index_table, \* DataManager.index_table: label and node ids, in dict order
    trie,        \* tree.trie: label -> trie id; <<>>: not built
    trie_nodes,  \* the list _set_index_table returns
    trie_table,  \* the TrieNode table: pages and length; <<>>: none
    converters,  \* convert(): the priorities of the enabled converters
    datasets,    \* the Dataset table: its records; <<>>: none
    calls        \* convert(): the DataManager methods called so far

tvars == <<pages, cfg_file, cfg_cache, page_cache, open_maps, ret, R, serial,
           hist, recency, nreq, list_add>>

ivars == <<aliases, index_table, trie, trie_nodes, trie_table, converters,
           datasets, calls>>

rvars == <<pc, targets, cur_id, node_array, open_nodes, prev_key, update_array,
           last_line, nlines, records, tmp_text, ivars>>

----------------------------------------------------------------------------
(* Sequences *)

Take(s, n) == SubSeq(s, 1, Min(Len(s), n))
Drop(s, n) == SubSeq(s, Min(Len(s), n) + 1, Len(s))
SeqRange(s) == {s[i] : i \in 1..Len(s)}
Without(s, i) == SubSeq(s, 1, i - 1) \o SubSeq(s, i + 1, Len(s))

RECURSIVE SortedSeq(_)
SortedSeq(S) ==
    IF S = {} THEN <<>>
    ELSE LET m == CHOOSE x \in S : \A y \in S : x <= y
         IN  <<m>> \o SortedSeq(S \ {m})

----------------------------------------------------------------------------
(* CapnpTable: paths, pages, config *)

\* _get_page_path: the page file that holds position pos.
PageNo(pos) == pos \div PAGE_SIZE

\* _write_page: page_NNN.bin is overwritten with nodes[0:PAGE_SIZE].
WritePage(pgs, page, nodes) == [pgs EXCEPT ![page] = Take(nodes, PAGE_SIZE)]

\* get_config (functools.cache): the cached dict when there is one, else
\* config.json; <<>> when the file cannot be opened.
GetConfig(cc, cf) == IF cc # <<>> THEN cc ELSE cf

\* count(): config["length"] of get_config().
Count == GetConfig(cfg_cache, cfg_file)

RECURSIVE WritePagesLoop(_, _, _)
\* append_records, "while len(new_nodes) > 0".
WritePagesLoop(pgs, page, new_nodes) ==
    IF Len(new_nodes) = 0 THEN pgs
    ELSE WritePagesLoop(WritePage(pgs, page, Take(new_nodes, PAGE_SIZE)),
                        page + 1, Drop(new_nodes, PAGE_SIZE))

\* append_records, "new_nodes = nodes[self.PAGE_SIZE - len(list_obj.nodes):]":
\* what is left of nodes once the partly filled page, old, has been topped up.
CarryOver(old, nodes) == Drop(nodes, PAGE_SIZE - Len(old))

\* append_records on a table with page files pgs, cached config cc and
\* config.json cf.  ok = FALSE: the call raised: no config.json, or the
\* partly filled page's file is missing, or "list_obj.nodes + nodes" raised
\* TypeError.  list_obj.nodes is a pycapnp list reader and nodes a list; the
\* sum is their concatenation where the reader has "+", and a TypeError
\* where it has not.
AppendRecords(pgs, cc, cf, nodes) ==
    LET config == GetConfig(cc, cf) IN
    IF config = <<>>
    THEN [ok |-> FALSE, pages |-> pgs, cfg_cache |-> cc, cfg_file |-> cf]
    ELSE
    LET new_pos == config[1]
        page    == PageNo(new_pos)
        pos     == page * PAGE_SIZE
        length  == <<new_pos + Len(nodes)>>
    IN  IF new_pos - pos > 0
        THEN IF pgs[page] = <<>> \/ ~list_add
             THEN [ok |-> FALSE, pages |-> pgs, cfg_cache |-> config,
                   cfg_file |-> cf]
             ELSE LET old == pgs[page]
                      pgs1 == WritePage(pgs, page,
                                        Take(old \o nodes, PAGE_SIZE))
                  IN  [ok |-> TRUE,
                       pages |-> WritePagesLoop(pgs1, page + 1,
                                     CarryOver(old, nodes)),
                       cfg_cache |-> length, cfg_file |-> length]
        ELSE [ok |-> TRUE, pages |-> WritePagesLoop(pgs, page, nodes),
              cfg_cache |-> length, cfg_file |-> length]

\* An update that rebuilds the record from new_value alone.
SetFields_Rebuild(rec, new_value) ==
    [k \in DOMAIN rec |-> IF k \in DOMAIN new_value THEN new_value[k] ELSE 0]

\* setattr(nodes[i], key, value) for every key of new_value.
SetFields(rec, new_value) ==
    [k \in DOMAIN rec |->
        IF k \in DOMAIN new_value THEN new_value[k] ELSE rec[k]]

\* A page list that takes every index.
OutOfPage_Never(nodes, idx) == FALSE

\* update_records, "nodes[pos % self.PAGE_SIZE]": the index is beyond the
\* records read from the page file (IndexError).
OutOfPage(nodes, idx) == idx + 1 > Len(nodes)

RECURSIVE UpdateLoop(_, _, _, _, _)
\* update_records, "for pos, new_value in updates.items()": cur is <<>> or
\* <<current_page>>, nodes the records of the page held in memory.
UpdateLoop(pgs, cur, nodes, todo, updates) ==
    IF todo = <<>>
    THEN [ok |-> TRUE,
          pages |-> IF cur # <<>> THEN WritePage(pgs, cur[1], nodes) ELSE pgs]
    ELSE
    LET pos   == Head(todo)
        page  == PageNo(pos)
        load  == cur = <<>> \/ cur[1] # page
        pgs1  == IF load /\ cur # <<>>
                 THEN WritePage(pgs, cur[1], nodes) ELSE pgs
        idx   == pos % PAGE_SIZE
    IN  IF load /\ pgs1[page] = <<>>
        THEN [ok |-> FALSE, pages |-> pgs1]
        ELSE LET nodes1 == IF load THEN pgs1[page] ELSE nodes IN
             IF OutOfPage(nodes1, idx)
             THEN [ok |-> FALSE, pages |-> pgs1]
             ELSE UpdateLoop(pgs1, <<page>>,
                      IF idx + 1 \in DOMAIN nodes1
                      THEN [nodes1 EXCEPT ![idx + 1] =
                               SetFields(nodes1[idx + 1], updates[pos])]
                      ELSE nodes1,
                      Tail(todo), updates)

\* update_records: the positions in ascending order, one page in memory at
\* a time; config.json and the cached config are not touched.  ok = FALSE:
\* the call raised; the pages written before stay.
UpdateRecords(pgs, cc, cf, updates) ==
    LET u == UpdateLoop(pgs, <<>>, <<>>, SortedSeq(DOMAIN updates), updates)
    IN  [ok |-> u.ok, pages |-> u.pages, cfg_cache |-> cc, cfg_file |-> cf]

----------------------------------------------------------------------------
(* CapnpManager: the page cache *)

\* The words a record of the table of Spec takes in a page file: one for
\* its fixed part and r.g for its text field g, whose value is kept as the
\* length of the text.
RecSize(r) == 1 + r.g

RECURSIVE FileSize(_)
\* The length of a page file that holds the records recs.
FileSize(recs) ==
    IF recs = <<>> THEN 0 ELSE RecSize(Head(recs)) + FileSize(Tail(recs))

\* PageReader.__init__: open the file and map its whole length.
NewPageReader(pgs, path) ==
    [path |-> path, len |-> FileSize(pgs[path]), orphan |-> FALSE,
     data |-> <<>>]

\* A cap test that lets one more entry in.
OverLimit_Late(cache) == Len(cache) > CACHE_LIMIT + 1

\* "if len(self.page_cache) > 10".
OverLimit(cache) == Len(cache) > CACHE_LIMIT

\* A hit that leaves the entry where it is (first in, first out).
MoveToEnd_Stay(cache, i) == cache

\* "self.page_cache.move_to_end(page_path)" on a hit at index i.
MoveToEnd(cache, i) == Append(Without(cache, i), cache[i])

\* OrderedDict.popitem(0): the index of the entry that leaves the cache.
EvictIndex(cache) == 1

\* PageReader.__del__, run by "del v": after the stop at pdb.set_trace(),
\* mm.close() and f.close().  When the debugger is quit instead, __del__ is
\* left early and the mapping and the file are released with the object, to
\* which nothing else refers.
PageReaderDel(open, path) == open \ {path}

CacheIndex(cache, path) ==
    IF \E i \in 1..Len(cache) : cache[i].path = path
    THEN CHOOSE i \in 1..Len(cache) : cache[i].path = path
    ELSE 0

\* get_page_mmap.  ok = FALSE: the call raised.  mm is the returned mapping.
GetPageMmap(cache, open, pgs, path) ==
    LET i == CacheIndex(cache, path) IN
    IF i > 0
    THEN \* hit: move_to_end
         [ok |-> TRUE, hit |-> TRUE, cache |-> MoveToEnd(cache, i),
          open |-> open, evicted |-> <<>>, mm |-> <<cache[i]>>]
    ELSE IF pgs[path] = <<>>
    THEN \* open() raises FileNotFoundError
         [ok |-> FALSE, hit |-> FALSE, cache |-> cache, open |-> open,
          evicted |-> <<>>, mm |-> <<>>]
    ELSE
    LET reader == NewPageReader(pgs, path)
        cache1 == Append(cache, reader)
        over   == OverLimit(cache1)
        e      == EvictIndex(cache1)
        cache2 == IF over THEN Without(cache1, e) ELSE cache1
        open2  == IF over THEN PageReaderDel(open \cup {path}, cache1[e].path)
                  ELSE open \cup {path}
        j      == CacheIndex(cache2, path)
    IN  \* self.page_cache[page_path] raises KeyError when the entry is gone
        [ok |-> j > 0, hit |-> FALSE, cache |-> cache2, open |-> open2,
         evicted |-> IF over THEN <<cache1[e].path>> ELSE <<>>,
         mm |-> IF j > 0 THEN <<cache2[j]>> ELSE <<>>]

\* What a mapping shows.  A mapping of a file that was unlinked keeps the
\* bytes the file had; a mapping of a file rewritten in place shows the new
\* bytes, up to the length that was mapped.
MapData(m, pgs) == IF m.orphan THEN m.data ELSE pgs[m.path]

\* from_bytes on a mapping: the message is cut short when the file has grown
\* beyond the mapped length.
MapDecodes(m, pgs) == FileSize(MapData(m, pgs)) <= m.len

\* get_record.  ok = FALSE: the call raised.
GetRecord(cache, open, pgs, pos) ==
    LET g   == GetPageMmap(cache, open, pgs, PageNo(pos))
        idx == pos % PAGE_SIZE
    IN  IF ~g.ok THEN [ok |-> FALSE, val |-> <<>>, g |-> g]
        ELSE LET m == g.mm[1] IN
             IF MapDecodes(m, pgs) /\ idx + 1 <= Len(MapData(m, pgs))
             THEN [ok |-> TRUE, val |-> <<MapData(m, pgs)[idx + 1]>>, g |-> g]
             ELSE [ok |-> FALSE, val |-> <<>>, g |-> g]

RECURSIVE RetrieveLoop(_, _, _, _)
\* retrieve_records, "while pos < offset + limit" (both loops): the page file
\* of pos is opened and mapped anew, and list_obj.nodes[pos % PAGE_SIZE] is
\* yielded.  ok = FALSE: the file is missing or the index is out of range,
\* and the generator raises after the records in out.
RetrieveLoop(pgs, last, pos, out) ==
    IF pos >= last THEN [ok |-> TRUE, out |-> out]
    ELSE LET page == pgs[PageNo(pos)] IN
         IF (pos % PAGE_SIZE) + 1 > Len(page) THEN [ok |-> FALSE, out |-> out]
         ELSE RetrieveLoop(pgs, last, pos + 1,
                           Append(out, page[(pos % PAGE_SIZE) + 1]))

\* retrieve_records(limit, offset); <<>> is an omitted argument, <<n>> the
\* argument n.  "limit = self.count()" raises when there is no config.
RetrieveRecords(pgs, cc, cf, limit, offset) ==
    IF limit = <<>> /\ GetConfig(cc, cf) = <<>>
    THEN [ok |-> FALSE, out |-> <<>>]
    ELSE LET lim == IF limit = <<>> THEN GetConfig(cc, cf)[1] ELSE limit[1]
             off == IF offset = <<>> THEN 0 ELSE offset[1]
         IN  RetrieveLoop(pgs, off + lim, off, <<>>)

\* shutil.rmtree(table_dir): every mapping of a page file keeps the unlinked
\* file's contents.
Unlinked(cache, pgs) ==
    [i \in 1..Len(cache) |->
        IF cache[i].orphan THEN cache[i]
        ELSE [cache[i] EXCEPT !.orphan = TRUE, !.data = pgs[cache[i].path]]]

\* The ghost recency order after a request of path.
Touch(rc, path) ==
    LET i == IF \E k \in 1..Len(rc) : rc[k] = path
             THEN CHOOSE k \in 1..Len(rc) : rc[k] = path ELSE 0
    IN  IF i > 0 THEN Append(Without(rc, i), path) ELSE Append(rc, path)

----------------------------------------------------------------------------
(* Spec: one CapnpTable object *)

NoPages == [p \in PageNos |-> <<>>]

\* No index is being built and convert() is not running.
NoIndex ==
    /\ aliases = <<>>
    /\ index_table = <<>>
    /\ trie = <<>>
    /\ trie_nodes = <<>>
    /\ trie_table = <<>>
    /\ converters = <<>>
    /\ datasets = <<>>
    /\ calls = <<>>

\* No DataManager.register is running.
NoRegister ==
    /\ pc = "none"
    /\ targets = 0
    /\ cur_id = 0
    /\ node_array = <<>>
    /\ open_nodes = <<>>
    /\ prev_key = <<>>
    /\ update_array = <<>>
    /\ last_line = <<>>
    /\ nlines = 0
    /\ records = <<>>
    /\ tmp_text = <<>>
    /\ NoIndex

TableInit ==
    /\ NoRegister
    /\ list_add \in BOOLEAN
    /\ pages = NoPages
    /\ cfg_file = <<>>
    /\ cfg_cache = <<>>
    /\ page_cache = <<>>
    /\ open_maps = {}
    /\ ret = [op |-> "init", ok |-> TRUE, arg |-> {}]
    /\ R = <<>>
    /\ serial = 0
    /\ hist = "new"
    /\ recency = <<>>
    /\ nreq = 0

\* create(): the table directory is removed with its contents and made
\* anew; config.json is written with length 0.
create ==
    /\ hist # "recreated"
    /\ pages' = NoPages
    /\ cfg_file' = <<0>>
    /\ page_cache' = Unlinked(page_cache, pages)
    /\ R' = <<>>
    /\ hist' = IF hist = "new" THEN "appends" ELSE "recreated"
    /\ ret' = [op |-> "create", ok |-> TRUE, arg |-> {}]
    /\ UNCHANGED <<cfg_cache, open_maps, serial, recency, nreq>>
    /\ UNCHANGED <<rvars, list_add>>

\* The lists handed to append_records: n records not appended before, told
\* apart by f, with g = 0.
FreshRecs(n) == [i \in 1..n |-> [f |-> serial + i, g |-> 0]]

AppendInputs == {FreshRecs(n) : n \in 0..MaxAppend}

append_records(nodes) ==
    LET a == AppendRecords(pages, cfg_cache, cfg_file, nodes) IN
    /\ Len(R) + Len(nodes) <= IF hist = "recreated" THEN MaxAgain ELSE MaxRecs
    /\ pages' = a.pages
    /\ cfg_cache' = a.cfg_cache
    /\ cfg_file' = a.cfg_file
    /\ R' = IF a.ok THEN R \o nodes ELSE R
    /\ serial' = IF a.ok THEN serial + Len(nodes) ELSE serial
    /\ hist' = IF hist = "appends" \/ hist = "recreated" THEN hist ELSE "mixed"
    /\ ret' = [op |-> "append_records", ok |-> a.ok, arg |-> {}]
    /\ UNCHANGED <<page_cache, open_maps, recency, nreq>>
    /\ UNCHANGED <<rvars, list_add>>

Positions == 0..(MaxRecs + MaxAgain)

\* The field changes of an updates dict: the text field g gets a text one
\* word long; no appended record holds one.
NewValue == [g |-> 1]

UpdateInputs ==
    UNION {[S -> {NewValue}] :
              S \in {T \in SUBSET (0..(MaxRecs - 1)) :
                        Cardinality(T) \in 1..MaxUpd}}

update_records(updates) ==
    LET u == UpdateRecords(pages, cfg_cache, cfg_file, updates) IN
    /\ pages' = u.pages
    /\ cfg_cache' = u.cfg_cache
    /\ cfg_file' = u.cfg_file
    /\ hist' = IF hist = "recreated" THEN hist ELSE "mixed"
    /\ ret' = [op |-> "update_records", ok |-> u.ok,
               arg |-> {PageNo(pos) : pos \in DOMAIN updates}]
    /\ UNCHANGED <<page_cache, open_maps, R, serial, recency, nreq>>
    /\ UNCHANGED <<rvars, list_add>>

get_record(pos) ==
    LET r == GetRecord(page_cache, open_maps, pages, pos) IN
    /\ page_cache' = r.g.cache
    /\ open_maps' = r.g.open
    /\ hist' = IF hist \in {"appends", "reads"} THEN "reads"
               ELSE IF hist = "recreated" THEN hist ELSE "mixed"
    /\ ret' = [op |-> "get_record", ok |-> r.ok, arg |-> {}]
    /\ UNCHANGED <<pages, cfg_file, cfg_cache, R, serial, recency, nreq>>
    /\ UNCHANGED <<rvars, list_add>>

TableNext ==
    \/ create
    \/ \E nodes \in AppendInputs : append_records(nodes)
    \/ \E updates \in UpdateInputs : update_records(updates)
    \/ \E pos \in Positions : get_record(pos)

\* The arguments of retrieve_records: omitted, or a number up to MaxRecs.
ReadArgs == {<<>>} \cup {<<n>> : n \in 0..MaxRecs}

\* retrieve_records(limit, offset), run to the end of the generator.
retrieve_records(limit, offset) ==
    LET r == RetrieveRecords(pages, cfg_cache, cfg_file, limit, offset) IN
    /\ hist' = IF hist \in {"appends", "reads"} THEN "reads"
               ELSE IF hist = "recreated" THEN hist ELSE "mixed"
    /\ ret' = [op |-> "retrieve_records", ok |-> r.ok, arg |-> {}]
    /\ UNCHANGED <<pages, cfg_file, cfg_cache, page_cache, open_maps, R,
                   serial, recency, nreq>>
    /\ UNCHANGED <<rvars, list_add>>

\* SpecRead: the calls of Spec and retrieve_records.
ReadNext ==
    \/ create
    \/ \E nodes \in AppendInputs : append_records(nodes)
    \/ \E updates \in UpdateInputs : update_records(updates)
    \/ \E pos \in Positions : get_record(pos)
    \/ \E limit, offset \in ReadArgs : retrieve_records(limit, offset)

----------------------------------------------------------------------------
(* SpecCache: get_page_mmap over a store of CachePages full pages *)

CacheStore ==
    [p \in PageNos |->
        IF p < CachePages
        THEN [i \in 1..PAGE_SIZE |-> [f |-> p * PAGE_SIZE + i, g |-> 0]]
        ELSE <<>>]

\* The table after create() and append_records of CachePages * PAGE_SIZE
\* records, before any page is read.
CacheInit ==
    /\ NoRegister
    /\ list_add \in BOOLEAN
    /\ pages = CacheStore
    /\ cfg_file = <<CachePages * PAGE_SIZE>>
    /\ cfg_cache = <<CachePages * PAGE_SIZE>>
    /\ page_cache = <<>>
    /\ open_maps = {}
    /\ ret = [op |-> "append_records", ok |-> TRUE, arg |-> {}]
    /\ R = [k \in 1..(CachePages * PAGE_SIZE) |-> [f |-> k, g |-> 0]]
    /\ serial = CachePages * PAGE_SIZE
    /\ hist = "appends"
    /\ recency = <<>>
    /\ nreq = 0

\* The page paths a call may ask for: a page asked for before, the lowest
\* page not asked for yet (get_page_mmap only compares paths for equality,
\* so which of the fresh pages comes first makes no difference), or the
\* path CachePages, which has no file.
Requestable ==
    (0..Min(Len(recency), CachePages - 1)) \cup {CachePages}

get_page_mmap(path) ==
    LET g == GetPageMmap(page_cache, open_maps, pages, path) IN
    /\ nreq < MaxReq
    /\ page_cache' = g.cache
    /\ open_maps' = g.open
    /\ recency' = IF g.ok THEN Touch(recency, path) ELSE recency
    /\ nreq' = nreq + 1
    /\ ret' = [op |-> "get_page_mmap", ok |-> g.ok, arg |-> {path}]
    /\ UNCHANGED <<pages, cfg_file, cfg_cache, R, serial, hist>>
    /\ UNCHANGED <<rvars, list_add>>

CacheNext == \E path \in Requestable : get_page_mmap(path)

----------------------------------------------------------------------------
(* DataManager: the formatted text lines *)

\* The element names of the text files.  "A" is another spelling of "a".
Names == {"A", "a", "b"}

\* The names the lines of SpecReg are made of.
RegNames == {"a", "b"}

\* itaiji_converter.standardize on the names above.
Standardize(name) == IF name = "A" THEN "a" ELSE name

\* The byte order of the names.
NameRank(name) == IF name = "A" THEN 1 ELSE IF name = "a" THEN 2 ELSE 3

Levels == 1..MaxLevel

\* The comma separated fields of a line: an address element "name;level",
\* the priority marker "!PP", a number, any other text.
Elem(name, level) == [t |-> "elem", s |-> name, n |-> level]
Pri(priority) == [t |-> "pri", s |-> "!", n |-> priority]
Num(v) == [t |-> "num", s |-> "", n |-> v]
Text(v) == [t |-> "text", s |-> v, n |-> 0]

\* re_float.match(field) and float(field).
IsFloat(tok) == tok.t = "num"

\* re_address.match(name).
IsAddress(tok) == tok.t = "elem"

\* sort_data: "names = self.re_name_level.findall(line)" and the standardized
\* "name;level" of each match.  An element matches when a comma follows it.
Keys(args) ==
    LET idx == {i \in 1..(Len(args) - 1) : IsAddress(args[i])}
        order == SortedSeq(idx)
    IN  [k \in 1..Len(order) |->
            <<Standardize(args[order[k]].s), args[order[k]].n>>]

\* The byte order of two fields of a line.
TokRank(tok) ==
    IF tok.t = "pri" THEN tok.n
    ELSE IF tok.t = "num" THEN 100 + tok.n
    ELSE IF tok.t = "elem" THEN 1000 + 10 * NameRank(tok.s) + tok.n
    ELSE 2000

\* The byte order of two elements of a sort key.
KeyRank(e) == 10 * NameRank(e[1]) + e[2]

RECURSIVE LexLeq(_, _, _)
\* s <= t from index i on, for sequences of ranks; a proper prefix comes
\* first.
LexLeq(s, t, i) ==
    IF i > Len(s) THEN TRUE
    ELSE IF i > Len(t) THEN FALSE
    ELSE IF s[i] # t[i] THEN s[i] < t[i]
    ELSE LexLeq(s, t, i + 1)

\* A sort that compares the sort keys alone.
SortLeq_KeyOnly(l1, l2) ==
    LexLeq([i \in 1..Len(Keys(l1)) |-> KeyRank(Keys(l1)[i])],
           [i \in 1..Len(Keys(l2)) |-> KeyRank(Keys(l2)[i])], 1)

\* sort_data, "records.sort()": the record of line l1 is not after that of
\* l2.  A record is the sort key, a tab and the line.
SortLeq(l1, l2) ==
    IF Keys(l1) # Keys(l2)
    THEN LexLeq([i \in 1..Len(Keys(l1)) |-> KeyRank(Keys(l1)[i])],
                [i \in 1..Len(Keys(l2)) |-> KeyRank(Keys(l2)[i])], 1)
    ELSE LexLeq([i \in 1..Len(l1) |-> TokRank(l1[i])],
                [i \in 1..Len(l2) |-> TokRank(l2[i])], 1)

\* process_line: the fields are split into the element names, x, y, the
\* note and the priority.  ok = FALSE: the call raised.
ParseLine(args) ==
    LET n    == Len(args)
        two  == n >= 2 /\ IsFloat(args[n]) /\ IsFloat(args[n - 1])
        cut  == IF two THEN 2 ELSE 3
        names0 == Take(args, n - cut)
        bad  == \/ n < cut
                \/ ~two /\ ~(IsFloat(args[n - 2]) /\ IsFloat(args[n - 1]))
                \/ names0 = <<>>
                \/ names0[Len(names0)].t # "pri"
    IN  IF bad
        THEN [ok |-> FALSE, names |-> <<>>, x |-> 0, y |-> 0, note |-> "",
              priority |-> 0]
        ELSE [ok |-> TRUE, names |-> Take(names0, Len(names0) - 1),
              x |-> args[n - cut + 1].n, y |-> args[n - cut + 2].n,
              note |-> IF two THEN "" ELSE args[n].s,
              priority |-> names0[Len(names0)].n]

----------------------------------------------------------------------------
(* DataManager: add_elements, _set_sibling *)

\* AddressNode.root().to_record().
RootRecord ==
    [id |-> 0, name |-> "", name_index |-> "", x |-> 0, y |-> 0, level |-> 0,
     priority |-> 0, note |-> "", parentId |-> 0, siblingId |-> 0]

\* gen_key: the elements joined by commas.  The string is kept as the
\* sequence of its elements.
gen_key(keys) == keys

\* A prefix test that compares the lengths alone.
StartsWith_Length(key, k) == Len(k) <= Len(key)

\* key.startswith(k), for keys whose levels have one digit and whose names
\* are not prefixes of one another.
StartsWith(key, k) == Len(k) <= Len(key) /\ SubSeq(key, 1, Len(k)) = k

\* A dict in which no key is ever found.
HasKey_Never(ns, key) == FALSE

\* "key in self.nodes".
HasKey(ns, key) == \E i \in 1..Len(ns) : ns[i].key = key

\* "self.nodes[key]".
NodeId(ns, key) == ns[CHOOSE i \in 1..Len(ns) : ns[i].key = key].id

\* A closing value that names the node allocated last.
ClosingSibling_Last(cur) == cur

\* "self._set_sibling(target_id, self.cur_id + 1)": the value handed over.
ClosingSibling(cur) == cur + 1

\* A test that takes every record for buffered while the buffer is not
\* empty.
Buffered_NonEmpty(na, target_id) == Len(na) # 0

\* _set_sibling: the negation of "len(self.node_array) == 0 or
\* self.node_array[0]['id'] > target_id".
Buffered(na, target_id) == Len(na) # 0 /\ na[1].id <= target_id

\* An in-place change that also moves the record under another parent.
InPlace_Reparent(rec, sibling_id) ==
    [rec EXCEPT !.siblingId = sibling_id, !.parentId = sibling_id]

\* _set_sibling: "self.node_array[pos]['siblingId'] = sibling_id".
InPlace(rec, sibling_id) == [rec EXCEPT !.siblingId = sibling_id]

\* A queued value that names the node allocated last.
QueuedSibling_Last(cur) == cur

\* _set_sibling: "self.update_array[target_id]['siblingId'] = self.cur_id + 1".
QueuedSibling(cur) == cur + 1

\* _set_sibling: a record still in node_array is changed in place; a record
\* already written to the table is queued in update_array.
SetSibling(na, ua, cur, target_id, sibling_id) ==
    IF ~Buffered(na, target_id)
    THEN [node_array |-> na,
          update_array |->
              (target_id :> [siblingId |-> QueuedSibling(cur)]) @@ ua]
    ELSE LET pos == target_id - na[1].id IN
         [node_array |->
              IF pos + 1 \in DOMAIN na
              THEN [na EXCEPT ![pos + 1] = InPlace(@, sibling_id)]
              ELSE na,
          update_array |-> ua]

RECURSIVE SetSiblings(_, _, _, _)
\* "for k, target_id in self.nodes.items(): self._set_sibling(...)" over the
\* entries to close, ids in dict order.
SetSiblings(na, ua, cur, ids) ==
    IF ids = <<>> THEN [node_array |-> na, update_array |-> ua]
    ELSE LET r == SetSibling(na, ua, cur, Head(ids), ClosingSibling(cur))
         IN  SetSiblings(r.node_array, r.update_array, cur, Tail(ids))

\* add_elements, "Delete unnecessary cache": the open nodes whose key the
\* new key does not start with are closed and dropped.
Cleanup(st, key) ==
    LET Ended(e) == ~StartsWith(key, e.key)
        Kept(e)  == StartsWith(key, e.key)
        ended == SelectSeq(st.open_nodes, Ended)
        r == SetSiblings(st.node_array, st.update_array, st.cur_id,
                         [i \in 1..Len(ended) |-> ended[i].id])
    IN  [st EXCEPT !.node_array = r.node_array,
                   !.update_array = r.update_array,
                   !.open_nodes = SelectSeq(st.open_nodes, Kept)]

RECURSIVE FlushLoop(_, _, _)
\* "while len(self.node_array) >= PAGE_SIZE": the whole buffer is handed to
\* append_records, then its first PAGE_SIZE records are dropped.  size is
\* the PAGE_SIZE of the node table.
FlushLoop(tbl, na, size) ==
    IF Len(na) >= size
    THEN LET a == AppendRecords(tbl.pages, tbl.cfg_cache, tbl.cfg_file, na)
         IN  IF a.ok THEN FlushLoop(a, Drop(na, size), size)
             ELSE [tbl |-> a, node_array |-> na]
    ELSE [tbl |-> tbl, node_array |-> na]

\* A level taken from the last element of the line.
NodeLevel_Last(names, i) == names[Len(names)].n

\* "level = m.group(2)" of names[i].
NodeLevel(names, i) == names[i].n

\* A parent that runs one ahead of the node just made.
NextParent_Ahead(new_id) == new_id + 1

\* "parent_id = new_id".
NextParent(new_id) == new_id

\* A note written on every node the line creates.
NodeNote_All(ln, i) == ln.note

\* "note=note if i == len(names) - 1 else ''".
NodeNote(ln, i) == IF i = Len(ln.names) THEN ln.note ELSE ""

\* A counter that leaves out every other id.
GetNextId_Skip(cur) == cur + 2

\* get_next_id: "self.cur_id += 1; return self.cur_id".
GetNextId(cur) == cur + 1

RECURSIVE AddLoop(_, _, _, _)
\* add_elements, "for i, name in enumerate(names)".
AddLoop(st, ln, i, parent_id) ==
    IF i > Len(ln.names) \/ ~st.ok THEN st
    ELSE
    LET key == gen_key(Take(ln.keys, i)) IN
    IF HasKey(st.open_nodes, key)
    THEN AddLoop(st, ln, i + 1, NodeId(st.open_nodes, key))
    ELSE IF ~IsAddress(ln.names[i]) \/ i > Len(ln.keys)
    THEN [st EXCEPT !.ok = FALSE]
    ELSE
    LET new_id == GetNextId(st.cur_id)
        node == [id |-> new_id, name |-> ln.names[i].s,
                 name_index |-> ln.keys[i][1], x |-> ln.x, y |-> ln.y,
                 level |-> NodeLevel(ln.names, i), priority |-> ln.priority,
                 note |-> NodeNote(ln, i),
                 parentId |-> parent_id, siblingId |-> 0]
        fl == FlushLoop(st.tbl, Append(st.node_array, node), st.page_size)
    IN  IF ~fl.tbl.ok
        THEN [st EXCEPT !.ok = FALSE, !.cur_id = new_id, !.tbl = fl.tbl,
                        !.node_array = fl.node_array]
        ELSE AddLoop([st EXCEPT !.cur_id = new_id, !.tbl = fl.tbl,
                                !.node_array = fl.node_array,
                                !.open_nodes =
                                    Append(@, [key |-> key, id |-> new_id]),
                                !.prev_key = key],
                     ln, i + 1, NextParent(new_id))

\* add_elements.
AddElements(st, ln) ==
    LET key == gen_key(ln.keys) IN
    IF HasKey(st.open_nodes, key) THEN st
    ELSE AddLoop(IF ~StartsWith(key, st.prev_key) THEN Cleanup(st, key)
                 ELSE st,
                 ln, 1, RootRecord.id)

\* An end of region that closes no node.
Remaining_None(ns) == <<>>

\* "for key, target_id in self.nodes.items()" after the last line: the ids
\* of all open nodes.
Remaining(ns) == [i \in 1..Len(ns) |-> ns[i].id]

\* write_database, after the last line: every open node is closed, then the
\* queued changes are written with update_records.
CloseRegion(st) ==
    LET r == SetSiblings(st.node_array, st.update_array, st.cur_id,
                         Remaining(st.open_nodes))
        u == IF DOMAIN r.update_array # {}
             THEN UpdateRecords(st.tbl.pages, st.tbl.cfg_cache,
                                st.tbl.cfg_file, r.update_array)
             ELSE st.tbl
    IN  [st EXCEPT !.node_array = r.node_array,
                   !.update_array = r.update_array,
                   !.open_nodes = <<>>, !.tbl = u, !.ok = u.ok]

\* process_line and the add_elements call at its end, on the fields of one
\* line of the sorted text.
ProcessLine(st, args) ==
    LET ps == ParseLine(args)
        ln == [keys |-> Keys(args), names |-> ps.names, x |-> ps.x,
               y |-> ps.y, note |-> ps.note, priority |-> ps.priority]
    IN  IF ps.ok THEN AddElements(st, ln) ELSE [st EXCEPT !.ok = FALSE]

\* register() after the loop over targets: "if len(self.node_array) > 0:
\* self.address_nodes.append_records(self.node_array)".
Finish(st) ==
    IF Len(st.node_array) > 0
    THEN AppendRecords(st.tbl.pages, st.tbl.cfg_cache, st.tbl.cfg_file,
                       st.node_array)
    ELSE st.tbl

----------------------------------------------------------------------------
(* SpecReg: DataManager.register *)

\* The lines of the text files: one to MaxDepth elements whose levels do not
\* decrease, the priority marker, x and y.
ElemSet == {Elem(nm, lv) : nm \in RegNames, lv \in Levels}

NamePaths ==
    {p \in UNION {[1..d -> ElemSet] : d \in 1..MaxDepth} :
        \A i \in 1..(Len(p) - 1) : p[i].n <= p[i + 1].n}

Tails == {<<Pri(1), Num(1), Num(1)>>}

Lines == {p \o t : p \in NamePaths, t \in Tails}

\* register() up to the loop over targets: the node table is created and
\* the root record waits in node_array.  The node table is the paged table
\* of capnp_manager.py.  Every append_records call of register starts at
\* the first position of a page, so that list_add has no part in it.
RegInit ==
    /\ pages = NoPages
    /\ cfg_file = <<0>>
    /\ cfg_cache = <<>>
    /\ page_cache = <<>>
    /\ open_maps = {}
    /\ ret = [op |-> "create", ok |-> TRUE, arg |-> {}]
    /\ R = <<>>
    /\ serial = 0
    /\ hist = "mixed"
    /\ recency = <<>>
    /\ nreq = 0
    /\ list_add = FALSE
    /\ pc = "targets"
    /\ targets = NumRegions
    /\ cur_id = RootRecord.id
    /\ node_array = <<RootRecord>>
    /\ open_nodes = <<>>
    /\ prev_key = <<>>
    /\ update_array = <<>>
    /\ last_line = <<>>
    /\ nlines = 0
    /\ records = <<>>
    /\ tmp_text = <<>>
    /\ NoIndex

\* The DataManager and its node table as one value.
RegState ==
    [ok |-> TRUE, page_size |-> PAGE_SIZE, cur_id |-> cur_id,
     node_array |-> node_array,
     open_nodes |-> open_nodes, prev_key |-> prev_key,
     update_array |-> update_array,
     tbl |-> [ok |-> TRUE, pages |-> pages, cfg_cache |-> cfg_cache,
              cfg_file |-> cfg_file]]

Becomes(st) ==
    /\ cur_id' = st.cur_id
    /\ node_array' = st.node_array
    /\ open_nodes' = st.open_nodes
    /\ prev_key' = st.prev_key
    /\ update_array' = st.update_array
    /\ pages' = st.tbl.pages
    /\ cfg_cache' = st.tbl.cfg_cache
    /\ cfg_file' = st.tbl.cfg_file

\* "for prefcode in self.targets": open_tmpfile, sort_data and the start of
\* write_database.
open_region ==
    /\ pc = "targets"
    /\ targets > 0
    /\ targets' = targets - 1
    /\ pc' = "lines"
    /\ open_nodes' = <<>>
    /\ prev_key' = <<>>
    /\ update_array' = <<>>
    /\ last_line' = <<>>
    /\ UNCHANGED <<cur_id, node_array, nlines, records, tmp_text>>
    /\ UNCHANGED <<tvars, ivars>>

\* write_database, "for args in reader": the next line of the sorted text.
process_line(args) ==
    LET st == ProcessLine(RegState, args)
    IN  /\ pc = "lines"
        /\ nlines < MaxLines
        /\ SortLeq(last_line, args)
        /\ Becomes(st)
        /\ pc' = IF st.ok THEN "lines" ELSE "failed"
        /\ last_line' = args
        /\ nlines' = nlines + 1
        /\ UNCHANGED <<targets, page_cache, open_maps, ret, R, serial, hist,
                       recency, nreq, list_add, records, tmp_text, ivars>>

\* write_database after the last line of the region.
end_region ==
    LET st == CloseRegion(RegState) IN
    /\ pc = "lines"
    /\ Becomes(st)
    /\ pc' = IF st.ok THEN "targets" ELSE "failed"
    /\ UNCHANGED <<targets, last_line, nlines, page_cache, open_maps, ret, R,
                   serial, hist, recency, nreq, list_add, records, tmp_text,
                   ivars>>

\* register() after the loop: what is left in node_array is appended.
finish ==
    LET a == Finish(RegState)
    IN  /\ pc = "targets"
        /\ targets = 0
        /\ pages' = a.pages
        /\ cfg_cache' = a.cfg_cache
        /\ cfg_file' = a.cfg_file
        /\ pc' = IF a.ok THEN "done" ELSE "failed"
        /\ UNCHANGED <<targets, cur_id, node_array, open_nodes, prev_key,
                       update_array, last_line, nlines, page_cache, open_maps,
                       ret, R, serial, hist, recency, nreq, list_add, records,
                       tmp_text, ivars>>

RegNext ==
    \/ open_region
    \/ \E args \in Lines : process_line(args)
    \/ end_region
    \/ finish

\* The lines of SpecLive: those of SpecReg with at most LiveDepth elements.
LiveLines == {l \in Lines : Len(l) <= LiveDepth + 3}

LiveNext ==
    \/ open_region
    \/ \E args \in LiveLines : process_line(args)
    \/ end_region
    \/ finish

----------------------------------------------------------------------------
(* SpecText: DataManager.register over one region of arbitrary lines *)

\* The lines of SpecText: up to TextDepth elements of level 1 in any of the
\* spellings, followed by one of the endings below.  A line may have no
\* element at all.
TextElems == {Elem(nm, 1) : nm \in Names}

TextPaths == UNION {[1..d -> TextElems] : d \in 0..TextDepth}

\* "!01,1,1"  "!02,2,2,n"  "1,1"  "1,1,n"  "!01,1"  "!01,n,1"  "!01,1,1,2"
TextTails ==
    {<<Pri(1), Num(1), Num(1)>>,
     <<Pri(2), Num(2), Num(2), Text("n")>>,
     <<Num(1), Num(1)>>,
     <<Num(1), Num(1), Text("n")>>,
     <<Pri(1), Num(1)>>,
     <<Pri(1), Text("n"), Num(1)>>,
     <<Pri(1), Num(1), Num(1), Num(2)>>}

TextLines == {p \o t : p \in TextPaths, t \in TextTails}

\* register() up to the loop over targets, with one target.
TextInit ==
    /\ pages = NoPages
    /\ cfg_file = <<0>>
    /\ cfg_cache = <<>>
    /\ page_cache = <<>>
    /\ open_maps = {}
    /\ ret = [op |-> "create", ok |-> TRUE, arg |-> {}]
    /\ R = <<>>
    /\ serial = 0
    /\ hist = "mixed"
    /\ recency = <<>>
    /\ nreq = 0
    /\ list_add = FALSE
    /\ pc = "targets"
    /\ targets = 1
    /\ cur_id = RootRecord.id
    /\ node_array = <<RootRecord>>
    /\ open_nodes = <<>>
    /\ prev_key = <<>>
    /\ update_array = <<>>
    /\ last_line = <<>>
    /\ nlines = 0
    /\ records = <<>>
    /\ tmp_text = <<>>
    /\ NoIndex

TextNext ==
    \/ open_region
    \/ \E args \in TextLines : process_line(args)
    \/ end_region
    \/ finish

----------------------------------------------------------------------------
(* SpecSort: sort_data and write_database over lines read in any order *)

\* "records.sort()" on one more record: it goes behind the records that
\* are not after it.
InsertRecord(sorted, rec) ==
    LET k == Cardinality({i \in 1..Len(sorted) : SortLeq(sorted[i], rec)})
    IN  SubSeq(sorted, 1, k) \o <<rec>> \o SubSeq(sorted, k + 1, Len(sorted))

RECURSIVE SortRecords(_)
\* sort_data: "records.sort()", a stable sort of the records as read.
SortRecords(recs) ==
    IF recs = <<>> THEN <<>>
    ELSE InsertRecord(SortRecords(SubSeq(recs, 1, Len(recs) - 1)),
                      recs[Len(recs)])

RECURSIVE WriteLines(_, _, _)
\* write_database, "for args in reader" from line i on; a raise ends it.
WriteLines(st, text, i) ==
    IF i > Len(text) \/ ~st.ok THEN st
    ELSE WriteLines(ProcessLine(st, text[i]), text, i + 1)

\* write_database on the sorted text of a region.
WriteDatabase(st, text) ==
    LET s1 == WriteLines([st EXCEPT !.open_nodes = <<>>, !.prev_key = <<>>,
                                    !.update_array = <<>>], text, 1)
    IN  IF s1.ok THEN CloseRegion(s1) ELSE s1

\* register() up to the loop over targets, for a node table whose
\* PAGE_SIZE is size.
StartState(size) ==
    [ok |-> TRUE, page_size |-> size, cur_id |-> RootRecord.id,
     node_array |-> <<RootRecord>>, open_nodes |-> <<>>,
     prev_key |-> <<>>, update_array |-> <<>>,
     tbl |-> [ok |-> TRUE, pages |-> NoPages, cfg_cache |-> <<>>,
              cfg_file |-> <<0>>]]

\* register() on one region whose files hold recs: the DataManager and its
\* node table when it returns or raises.
RegisterRun(recs) ==
    LET s1 == WriteDatabase(StartState(PAGE_SIZE), SortRecords(recs))
        t  == IF s1.ok THEN Finish(s1) ELSE s1.tbl
    IN  [s1 EXCEPT !.ok = s1.ok /\ t.ok, !.tbl = t]

\* A PAGE_SIZE above the number of records any text of the model makes.
Unpaged == Max(MaxLines, MaxIndexLines) * MaxDepth + 2

\* register() on the same region with a node table of PAGE_SIZE Unpaged,
\* up to the last append_records: no record leaves node_array.
BufferedRun(recs) ==
    WriteDatabase(StartState(Unpaged), SortRecords(recs))

\* The node table register() leaves.
Register(recs) ==
    LET s == RegisterRun(recs) IN
    [ok |-> s.ok, pages |-> s.tbl.pages, cfg_file |-> s.tbl.cfg_file]

\* The lines of SpecSort: one or two elements in any spelling, then
\* "!01,1,1" or "!02,2,2,n".
SortLines ==
    {p \o t : p \in TextPaths \ {<<>>},
              t \in {<<Pri(1), Num(1), Num(1)>>,
                     <<Pri(2), Num(2), Num(2), Text("n")>>}}

\* The region's lines in the order glob and the files give them.
ReadOrders == UNION {[1..n -> SortLines] : n \in 0..MaxLines}

SortInit ==
    /\ pages = NoPages
    /\ cfg_file = <<0>>
    /\ cfg_cache = <<>>
    /\ page_cache = <<>>
    /\ open_maps = {}
    /\ ret = [op |-> "create", ok |-> TRUE, arg |-> {}]
    /\ R = <<>>
    /\ serial = 0
    /\ hist = "mixed"
    /\ recency = <<>>
    /\ nreq = 0
    /\ list_add = FALSE
    /\ pc = "targets"
    /\ targets = 1
    /\ cur_id = RootRecord.id
    /\ node_array = <<RootRecord>>
    /\ open_nodes = <<>>
    /\ prev_key = <<>>
    /\ update_array = <<>>
    /\ last_line = <<>>
    /\ nlines = 0
    /\ records \in ReadOrders
    /\ tmp_text = <<>>
    /\ NoIndex

\* "for prefcode in self.targets": open_tmpfile, sort_data and the start of
\* write_database.
sort_data ==
    /\ pc = "targets"
    /\ targets > 0
    /\ targets' = targets - 1
    /\ pc' = "lines"
    /\ tmp_text' = SortRecords(records)
    /\ open_nodes' = <<>>
    /\ prev_key' = <<>>
    /\ update_array' = <<>>
    /\ last_line' = <<>>
    /\ UNCHANGED <<cur_id, node_array, nlines, records>>
    /\ UNCHANGED <<tvars, ivars>>

\* write_database, "for args in reader", on the text sort_data wrote.
write_line ==
    /\ nlines < Len(tmp_text)
    /\ process_line(tmp_text[nlines + 1])

\* write_database after the last line of tmp_text.
end_text ==
    /\ nlines = Len(tmp_text)
    /\ end_region

SortNext ==
    \/ sort_data
    \/ write_line
    \/ end_text
    \/ finish

----------------------------------------------------------------------------
(* DataManager: the trie index *)

\* jageocoder.address.AddressLevel, as far as the index builder and the
\* lines of SpecIndex use it.
PREF == 1
CITY == 3
OAZA == 5
AZA == 6

\* tree.address_nodes.get_record(pos) on the node table register wrote.
NodeAt(pgs, pos) == pgs[PageNo(pos)][(pos % PAGE_SIZE) + 1]

\* "parent_id in tmp_id_name_table" and "tmp_id_name_table[parent_id]"; the
\* dict is kept as the list of its values in insertion order.
InTmp(tmp, id) == \E i \in 1..Len(tmp) : tmp[i].id = id
TmpNode(tmp, id) == tmp[CHOOSE i \in 1..Len(tmp) : tmp[i].id = id]

\* A scan that steps to the next position behind an OAZA node.
AfterOaza_Next(node, pos) == pos + 1

\* "pos = node.sibling_id" behind a node of level OAZA.
AfterOaza(node, pos) == node.siblingId

\* _get_index_table, one turn of the while loop at pos: the value pos has
\* when the turn ends.
OazaNext(pgs, pos) ==
    LET node == NodeAt(pgs, pos) IN
    IF node.level <= OAZA
    THEN IF node.level < OAZA THEN pos + 1 ELSE AfterOaza(node, pos)
    ELSE LET parent == NodeAt(pgs, node.parentId) IN
         IF parent.level < OAZA THEN pos + 1 ELSE parent.siblingId

RECURSIVE ScanOaza(_, _, _, _)
\* _get_index_table, "while pos < tree.address_nodes.count_records()": the
\* nodes of level <= OAZA the scan comes by.
ScanOaza(pgs, n, pos, tmp) ==
    IF pos >= n THEN tmp
    ELSE LET node == NodeAt(pgs, pos) IN
         ScanOaza(pgs, n, OazaNext(pgs, pos),
                  IF node.level <= OAZA THEN Append(tmp, node) ELSE tmp)

RECURSIVE NodePrefixes(_, _, _)
\* "while True: node_prefixes.insert(0, cur_node.name)": the names from the
\* child of the root down to the node; ok = FALSE: RuntimeError.
NodePrefixes(tmp, cur_node, below) ==
    LET names == <<cur_node.name>> \o below IN
    IF cur_node.parentId = RootRecord.id THEN [ok |-> TRUE, names |-> names]
    ELSE IF ~InTmp(tmp, cur_node.parentId)
    THEN [ok |-> FALSE, names |-> names]
    ELSE NodePrefixes(tmp, TmpNode(tmp, cur_node.parentId), names)

\* tree.converter.standardize("".join(names)): a label is kept as the list
\* of the standardized names it is made of.
StandardizeLabel(names) == [i \in 1..Len(names) |-> Standardize(names[i])]

\* "if label in self.index_table: ...append(v.id) else: ... = [v.id]".
AddLabel(tbl, label, id) ==
    IF \E i \in 1..Len(tbl) : tbl[i].k = label
    THEN [i \in 1..Len(tbl) |->
             IF tbl[i].k = label
             THEN [k |-> label, nodes |-> Append(tbl[i].nodes, id)]
             ELSE tbl[i]]
    ELSE Append(tbl, [k |-> label, nodes |-> <<id>>])

RECURSIVE AddLabels(_, _, _)
\* AddLabel for each label of a list.
AddLabels(tbl, labels, id) ==
    IF labels = <<>> THEN tbl
    ELSE AddLabels(AddLabel(tbl, Head(labels), id), Tail(labels), id)

\* tree.converter.standardized_candidates(name_index): the notation itself
\* and its variants.  "b" has the variant "v".
Candidates(name_index) ==
    IF name_index = "b" THEN <<"b", "v">> ELSE <<name_index>>

\* "for i in range(len(node_prefixes))": the labels of the suffixes.
SuffixLabels(names) ==
    [i \in 1..Len(names) |-> StandardizeLabel(SubSeq(names, i, Len(names)))]

\* "for candidate in ...standardized_candidates(v.name_index)": the labels
\* of the variants.
VariantLabels(v) ==
    LET IsVariant(c) == c # v.name_index
        cs == SelectSeq(Candidates(v.name_index), IsVariant)
    IN  [i \in 1..Len(cs) |-> <<cs[i]>>]

RECURSIVE IndexNodes(_, _, _)
\* _get_index_table, "for k, v in tmp_id_name_table.items()" from the i-th
\* value on.
IndexNodes(tmp, i, tbl) ==
    IF i > Len(tmp) THEN [ok |-> TRUE, index_table |-> tbl]
    ELSE LET v == tmp[i]
             np == NodePrefixes(tmp, v, <<>>)
         IN  IF ~np.ok THEN [ok |-> FALSE, index_table |-> tbl]
             ELSE IndexNodes(tmp, i + 1,
                      AddLabels(AddLabels(tbl, SuffixLabels(np.names), v.id),
                                VariantLabels(v), v.id))

\* _get_index_table on the node table pgs of n records.
GetIndexTable(pgs, n) ==
    IndexNodes(ScanOaza(pgs, n, RootRecord.id + 1, <<>>), 1, <<>>)

\* _extend_index_table, one turn of the while loop at pos: the value pos
\* has when the turn ends.
CityNext(pgs, pos) ==
    LET node == NodeAt(pgs, pos) IN
    IF node.level <= CITY THEN pos + 1
    ELSE NodeAt(pgs, node.parentId).siblingId

RECURSIVE ScanCity(_, _, _, _, _)
\* _extend_index_table, "while pos < tree.address_nodes.count_records()":
\* the nodes of level <= CITY the scan comes by. seen holds the positions
\* of the turns made so far; a turn at one of them is followed by the same
\* turns as before, so the loop never ends: done = FALSE.
ScanCity(pgs, n, pos, tmp, seen) ==
    IF pos >= n THEN [done |-> TRUE, tmp |-> tmp]
    ELSE IF pos \in seen THEN [done |-> FALSE, tmp |-> tmp]
    ELSE LET node == NodeAt(pgs, pos) IN
         ScanCity(pgs, n, CityNext(pgs, pos),
                  IF node.level <= CITY THEN Append(tmp, node) ELSE tmp,
                  seen \cup {pos})

\* "aliases[v.name]"; no entry: <<>>.
AliasesOf(als, name) == IF name \in DOMAIN als THEN als[name] ELSE <<>>

\* _extend_index_table, the alternatives of node v under parents.
Alternatives(als, parents, v) ==
    LET cands == AliasesOf(als, v.name)
        n == Len(parents) + 1
        \* "for candidate ...: for i in range(len(parents) + 1)"
        first == [j \in 1..(Len(cands) * n) |->
                     SubSeq(parents, ((j - 1) % n) + 1, Len(parents))
                         \o <<cands[((j - 1) \div n) + 1]>>]
        second == IF Len(parents) > 1
                  THEN <<<<parents[1], v.name>>>> \o
                       [j \in 1..Len(cands) |-> <<parents[1], cands[j]>>]
                  ELSE <<>>
    IN  first \o second

RECURSIVE ExtendNodes(_, _, _, _)
\* _extend_index_table, "for k, v in tmp_id_name_table.items()" from the
\* i-th value on; ok = FALSE: KeyError.
ExtendNodes(als, tmp, i, tbl) ==
    IF i > Len(tmp) THEN [ok |-> TRUE, index_table |-> tbl]
    ELSE LET v == tmp[i] IN
         IF v.parentId = RootRecord.id THEN ExtendNodes(als, tmp, i + 1, tbl)
         ELSE IF ~InTmp(tmp, v.parentId)
         THEN [ok |-> FALSE, index_table |-> tbl]
         ELSE LET parent_node == TmpNode(tmp, v.parentId) IN
         IF parent_node.level # PREF /\ ~InTmp(tmp, parent_node.parentId)
         THEN [ok |-> FALSE, index_table |-> tbl]
         ELSE LET parents ==
                      IF parent_node.level = PREF THEN <<parent_node.name>>
                      ELSE <<TmpNode(tmp, parent_node.parentId).name,
                             parent_node.name>>
                  alts == Alternatives(als, parents, v)
                  labels == [j \in 1..Len(alts) |-> StandardizeLabel(alts[j])]
              IN  ExtendNodes(als, tmp, i + 1, AddLabels(tbl, labels, v.id))

\* _extend_index_table on the node table pgs of n records; done = FALSE:
\* the call does not return.
ExtendIndexTable(als, pgs, n, tbl) ==
    LET scan == ScanCity(pgs, n, RootRecord.id + 1, <<>>, {}) IN
    IF ~scan.done THEN [ok |-> TRUE, index_table |-> tbl, done |-> FALSE]
    ELSE LET r == ExtendNodes(als, scan.tmp, 1, tbl) IN
         [ok |-> r.ok, index_table |-> r.index_table, done |-> TRUE]

\* An unfilled slot of the list _set_index_table builds.
None == [id |-> -1, nodes |-> <<>>]

\* A list grown by one slot less than the trie id needs.
PadTo_Short(trie_id, len) == trie_id - len

\* "trie_id - len(trie_nodes) + 1": the slots added in front of a trie id.
PadTo(trie_id, len) == trie_id - len + 1

RECURSIVE SetLoop(_, _, _, _)
\* _set_index_table, "for k, node_id_list in self.index_table.items()" from
\* the i-th entry on.
SetLoop(tbl, tr, i, tn) ==
    IF i > Len(tbl) THEN tn
    ELSE LET trie_id == tr[tbl[i].k]
             grown == IF Len(tn) <= trie_id
                      THEN tn \o [j \in 1..PadTo(trie_id, Len(tn)) |-> None]
                      ELSE tn
         IN  SetLoop(tbl, tr, i + 1,
                     [grown EXCEPT ![trie_id + 1] =
                         [id |-> trie_id, nodes |-> tbl[i].nodes]])

\* _set_index_table.
SetIndexTable(tbl, tr) == SetLoop(tbl, tr, 1, <<>>)

\* AddressTrie(path, index_table).save(): the ids the trie gives the labels
\* are 0..n-1, each once.  r picks the assignment.
TrieIds(tbl, r) ==
    [l \in {tbl[i].k : i \in 1..Len(tbl)} |->
        ((CHOOSE i \in 1..Len(tbl) : tbl[i].k = l) + r) % Len(tbl)]

----------------------------------------------------------------------------
(* SpecIndex: register and create_trie_index on the texts of one region *)

\* The lines of SpecIndex: the prefecture "a", then up to MaxDepth - 1
\* elements of the levels CITY, OAZA and AZA, not decreasing.
IndexPaths ==
    {<<Elem("a", PREF)>> \o p :
        p \in {q \in UNION {[1..d -> {Elem(nm, lv) : nm \in RegNames,
                                          lv \in {CITY, OAZA, AZA}}] :
                            d \in 0..(MaxDepth - 1)} :
                  \A i \in 1..(Len(q) - 1) : q[i].n <= q[i + 1].n}}

IndexLines == {p \o <<Pri(1), Num(1), Num(1)>> : p \in IndexPaths}

\* The sorted texts of up to MaxIndexLines different lines.
IndexTexts ==
    {t \in UNION {[1..n -> IndexLines] : n \in 0..MaxIndexLines} :
        \A i \in 1..(Len(t) - 1) : t[i] # t[i + 1] /\ SortLeq(t[i], t[i + 1])}

\* data/aliases.json: none; "b" is also written "c"; "a" is also written
\* "A", which standardize() maps to "a".
AliasTables == {<<>>, "b" :> <<"c">>, "a" :> <<"A">>}

\* DataManager.__init__ and the table register() starts from.
IndexStart ==
    /\ pages = NoPages
    /\ cfg_file = <<0>>
    /\ cfg_cache = <<>>
    /\ page_cache = <<>>
    /\ open_maps = {}
    /\ ret = [op |-> "create", ok |-> TRUE, arg |-> {}]
    /\ R = <<>>
    /\ serial = 0
    /\ hist = "mixed"
    /\ recency = <<>>
    /\ nreq = 0
    /\ list_add = FALSE
    /\ pc = "register"
    /\ targets = 1
    /\ cur_id = RootRecord.id
    /\ node_array = <<RootRecord>>
    /\ open_nodes = <<>>
    /\ prev_key = <<>>
    /\ update_array = <<>>
    /\ last_line = <<>>
    /\ nlines = 0
    /\ tmp_text = <<>>
    /\ index_table = <<>>
    /\ trie = <<>>
    /\ trie_nodes = <<>>
    /\ trie_table = <<>>
    /\ converters = <<>>
    /\ datasets = <<>>
    /\ calls = <<>>

\* convert() before "manager.register()", with the texts of one region.
IndexInit ==
    /\ records \in IndexTexts
    /\ aliases \in AliasTables
    /\ IndexStart

\* convert(): "manager.register()", from its first line to its return.
register ==
    LET st == RegisterRun(records)
        text == SortRecords(records)
    IN  /\ pc = "register"
        /\ Becomes(st)
        /\ pc' = IF st.ok THEN "index" ELSE "failed"
        /\ targets' = 0
        /\ tmp_text' = text
        /\ nlines' = Len(text)
        /\ last_line' = IF text = <<>> THEN <<>> ELSE text[Len(text)]
        /\ calls' = Append(calls, "register")
        /\ UNCHANGED <<page_cache, open_maps, ret, R, serial, hist, recency,
                       nreq, list_add, records, aliases, index_table, trie,
                       trie_nodes, trie_table, converters, datasets>>

IndexFrame ==
    UNCHANGED <<tvars, targets, cur_id, node_array, open_nodes, prev_key,
                update_array, last_line, nlines, records, tmp_text, aliases,
                converters, datasets>>

\* create_trie_index: "self._get_index_table()".
get_index_table ==
    LET r == GetIndexTable(pages, Count[1]) IN
    /\ pc = "index"
    /\ index_table' = r.index_table
    /\ pc' = IF r.ok THEN "extend" ELSE "failed"
    /\ calls' = Append(calls, "create_index")
    /\ UNCHANGED <<trie, trie_nodes, trie_table>>
    /\ IndexFrame

\* create_trie_index: "self._extend_index_table()".
extend_index_table ==
    LET r == ExtendIndexTable(aliases, pages, Count[1], index_table) IN
    /\ pc = "extend"
    /\ index_table' = r.index_table
    /\ pc' = IF ~r.done THEN "scanning"
             ELSE IF r.ok THEN "trie" ELSE "failed"
    /\ UNCHANGED <<trie, trie_nodes, trie_table, calls>>
    /\ IndexFrame

\* create_trie_index: "self.tree.trie = AddressTrie(...)" and save().
save_trie ==
    /\ pc = "trie"
    /\ \E r \in 0..Max(Min(Len(index_table), MaxShift) - 1, 0) :
          trie' = TrieIds(index_table, r)
    /\ pc' = "set"
    /\ UNCHANGED <<index_table, trie_nodes, trie_table, calls>>
    /\ IndexFrame

\* create_trie_index: "records = self._set_index_table()" and
\* "self.index_table.clear()".
set_index_table ==
    /\ pc = "set"
    /\ trie_nodes' = SetIndexTable(index_table, trie)
    /\ index_table' = <<>>
    /\ pc' = "write"
    /\ UNCHANGED <<trie, trie_table, calls>>
    /\ IndexFrame

\* create_trie_index: the TrieNode table is created and the records are
\* appended to it.
write_trie_nodes ==
    LET a == AppendRecords(NoPages, <<>>, <<0>>, trie_nodes) IN
    /\ pc = "write"
    /\ trie_table' = [pages |-> a.pages, length |-> a.cfg_file[1]]
    /\ pc' = IF a.ok /\ None \notin SeqRange(trie_nodes)
             THEN "indexed" ELSE "failed"
    /\ UNCHANGED <<index_table, trie, trie_nodes, calls>>
    /\ IndexFrame

IndexNext ==
    \/ register
    \/ get_index_table
    \/ extend_index_table
    \/ save_trie
    \/ set_index_table
    \/ write_trie_nodes

----------------------------------------------------------------------------
(* SpecScan: register and create_trie_index on lines of any first level *)

\* The lines of SpecScan: up to ScanDepth elements of the levels PREF, CITY,
\* OAZA and AZA, not decreasing; process_line takes a line whatever the
\* level of its first element is.
ScanPaths ==
    {q \in UNION {[1..d -> {Elem(nm, lv) : nm \in RegNames,
                                         lv \in {PREF, CITY, OAZA, AZA}}] :
                  d \in 1..ScanDepth} :
        \A i \in 1..(Len(q) - 1) : q[i].n <= q[i + 1].n}

ScanLineSet == {p \o <<Pri(1), Num(1), Num(1)>> : p \in ScanPaths}

\* The sorted texts of up to ScanLines different lines.
ScanTexts ==
    {t \in UNION {[1..n -> ScanLineSet] : n \in 0..ScanLines} :
        \A i \in 1..(Len(t) - 1) : t[i] # t[i + 1] /\ SortLeq(t[i], t[i + 1])}

\* convert() before "manager.register()", without aliases.
ScanInit ==
    /\ records \in ScanTexts
    /\ aliases = <<>>
    /\ IndexStart

ScanNext ==
    \/ register
    \/ get_index_table
    \/ extend_index_table
    \/ save_trie
    \/ set_index_table
    \/ write_trie_nodes

----------------------------------------------------------------------------
(* SpecBuild: convert() from the choice of the converters to its return *)

\* convert(): the converters in the order they are made, each with the
\* priority it is made with and the "use_" argument that enables it.
AllConverters ==
    << [name |-> "city",     priority |-> 1, use |-> "oaza"],
       [name |-> "oaza",     priority |-> 8, use |-> "oaza"],
       [name |-> "gaiku",    priority |-> 3, use |-> "gaiku"],
       [name |-> "geolonia", priority |-> 2, use |-> "geolonia"],
       [name |-> "jusho",    priority |-> 4, use |-> "jusho"],
       [name |-> "basereg",  priority |-> 9, use |-> "basereg"],
       [name |-> "chiban",   priority |-> 7, use |-> "chiban"] >>

\* The "use_" arguments of convert() that enable a converter.
UseFlags == {AllConverters[i].use : i \in DOMAIN AllConverters}

\* convert(): "converters.append(converter)" under each "if use_...".
Enabled(use) == SelectSeq(AllConverters, LAMBDA c : c.use \in use)

\* The texts the converters leave for the region: one line of the
\* prefecture and at most BuildDepth elements below it.
BuildTexts ==
    {t \in IndexTexts :
        Len(t) = 1 /\ Len(t[1]) <= 1 + BuildDepth + Len(<<Pri(1), Num(1), Num(1)>>)}

\* convert() after the list of converters is made.
BuildInit ==
    /\ \E use \in SUBSET UseFlags : converters = Enabled(use)
    /\ records = <<>>
    /\ aliases = <<>>
    /\ pages = NoPages
    /\ cfg_file = <<0>>
    /\ cfg_cache = <<>>
    /\ page_cache = <<>>
    /\ open_maps = {}
    /\ ret = [op |-> "create", ok |-> TRUE, arg |-> {}]
    /\ R = <<>>
    /\ serial = 0
    /\ hist = "mixed"
    /\ recency = <<>>
    /\ nreq = 0
    /\ list_add = FALSE
    /\ pc = "convert"
    /\ targets = 1
    /\ cur_id = RootRecord.id
    /\ node_array = <<RootRecord>>
    /\ open_nodes = <<>>
    /\ prev_key = <<>>
    /\ update_array = <<>>
    /\ last_line = <<>>
    /\ nlines = 0
    /\ tmp_text = <<>>
    /\ index_table = <<>>
    /\ trie = <<>>
    /\ trie_nodes = <<>>
    /\ trie_table = <<>>
    /\ datasets = <<>>
    /\ calls = <<>>

BuildFrame ==
    UNCHANGED <<tvars, targets, cur_id, node_array, open_nodes, prev_key,
                update_array, last_line, nlines, tmp_text, aliases,
                index_table, trie, trie_nodes, trie_table, converters>>

\* convert(): "converters[0].get_address_all(aza_data_dir)", which raises
\* IndexError when no converter is enabled, then "converter.convert()" of
\* every converter, which writes the texts.
convert_texts ==
    /\ pc = "convert"
    /\ IF converters = <<>>
       THEN pc' = "failed" /\ UNCHANGED records
       ELSE pc' = "datasets" /\ records' \in BuildTexts
    /\ UNCHANGED <<datasets, calls>>
    /\ BuildFrame

\* DataManager.write_datasets: the record of id 0, then one record per
\* converter.
DatasetRecords(cs) ==
    <<[id |-> 0, title |-> "history"]>>
    \o [i \in DOMAIN cs |-> [id |-> cs[i].priority, title |-> cs[i].name]]

\* convert(): "manager.write_datasets(converters)".
write_datasets ==
    /\ pc = "datasets"
    /\ datasets' = DatasetRecords(converters)
    /\ calls' = Append(calls, "write_datasets")
    /\ pc' = "register"
    /\ UNCHANGED records
    /\ BuildFrame

\* convert(): the texts, write_datasets, register, create_index.
BuildNext ==
    \/ convert_texts
    \/ write_datasets
    \/ register
    \/ get_index_table
    \/ extend_index_table
    \/ save_trie
    \/ set_index_table
    \/ write_trie_nodes

----------------------------------------------------------------------------
vars == <<tvars, rvars>>

Init == TableInit

Next == TableNext

Spec == Init /\ [][Next]_vars

SpecCache == CacheInit /\ [][CacheNext]_vars

SpecReg == RegInit /\ [][RegNext]_vars

SpecRead == Init /\ [][ReadNext]_vars

SpecText == TextInit /\ [][TextNext]_vars

SpecBuild == BuildInit /\ [][BuildNext]_vars

SpecSort == SortInit /\ [][SortNext]_vars

SpecIndex == IndexInit /\ [][IndexNext]_vars

SpecScan == ScanInit /\ [][ScanNext]_vars

\* write_database leaves "for args in reader": the sorted text is read to
\* its end (end_region) or a line raises.
LinesEnd == pc = "lines" /\ pc' \in {"targets", "failed"}

\* register runs its loops to the end: the text of a region is finite, the
\* next region is opened, and the rest of node_array is written.
SpecLive ==
    /\ RegInit /\ [][LiveNext]_vars
    /\ WF_vars(open_region) /\ WF_pc(LinesEnd) /\ WF_vars(finish)

----------------------------------------------------------------------------
(* Claims about the record store *)

\* What get_record(pos) returns or raises when called in the current state.
Read(pos) == GetRecord(page_cache, open_maps, pages, pos)

\* The page paths held by page_cache.
Cached(cache) == {cache[i].path : i \in 1..Len(cache)}


\* C1: for a table created empty and then only appended to, every
\* append_records call returns, count() is the number of appended records
\* and get_record(pos) returns the pos-th of them, for every pos below that
\* number.
C1_AppendThenRead ==
    hist \in {"appends", "reads"} =>
        /\ ret.op = "append_records" => ret.ok
        /\ Count = <<Len(R)>>
        /\ \A pos \in 0..(Len(R) - 1) :
              Read(pos).ok /\ Read(pos).val = <<R[pos + 1]>>

\* C2: get_record(pos) with pos at or beyond the number of records written
\* since the last create raises; it returns no record.
C2_OutOfRangeFails ==
    \A pos \in Positions : pos >= Len(R) => ~Read(pos).ok

\* C3: on a table created once, get_record of a position that a page file
\* holds returns what the file holds now, whatever was cached before the
\* file was rewritten.
C3_NoStaleMapping ==
    hist # "recreated" =>
        \A pos \in Positions :
            (pos % PAGE_SIZE) + 1 <= Len(pages[PageNo(pos)]) =>
                /\ Read(pos).ok
                /\ Read(pos).val = <<pages[PageNo(pos)][(pos % PAGE_SIZE) + 1]>>

\* The record at position pos of page files pgs; <<>> when there is none.
At(pgs, pos) ==
    IF (pos % PAGE_SIZE) + 1 <= Len(pgs[PageNo(pos)])
    THEN <<pgs[PageNo(pos)][(pos % PAGE_SIZE) + 1]>> ELSE <<>>

\* C4: update_records whose positions all hold a record changes the named
\* fields of the records at those positions and nothing else: not their
\* other fields, not any other record, not the length of any page, not
\* count().
C4_UpdateFrame ==
    \A updates \in UpdateInputs :
        (\A pos \in DOMAIN updates : At(pages, pos) # <<>>) =>
            LET u == UpdateRecords(pages, cfg_cache, cfg_file, updates) IN
            /\ u.ok
            /\ GetConfig(u.cfg_cache, u.cfg_file) = Count
            /\ \A p \in PageNos : Len(u.pages[p]) = Len(pages[p])
            /\ \A pos \in Positions :
                  IF pos \in DOMAIN updates
                  THEN \A k \in Fields :
                         At(u.pages, pos)[1][k] =
                            IF k \in DOMAIN updates[pos]
                            THEN updates[pos][k] ELSE At(pages, pos)[1][k]
                  ELSE At(u.pages, pos) = At(pages, pos)

\* C4 witness: an update_records call on positions of two full pages has
\* returned; a record holds the new value in the named field and what was
\* appended in the other.
C4_Witness ==
    /\ ret.op = "update_records" /\ ret.ok
    /\ Cardinality(ret.arg) = 2
    /\ \A p \in ret.arg : Len(pages[p]) = PAGE_SIZE
    /\ \E p \in ret.arg : \E i \in 1..PAGE_SIZE :
          pages[p][i].g = NewValue.g /\ pages[p][i].f = R[p * PAGE_SIZE + i].f

\* C5: right after create() returns, count() is 0 and the table has no
\* page file.
C5_CreateEmpties ==
    ret.op = "create" => Count = <<0>> /\ pages = NoPages

\* C6: after a get_page_mmap call, page_cache holds at most CACHE_LIMIT
\* entries, and a call for a page whose file exists has returned with that
\* page in the cache.
C6_CacheBound ==
    ret.op = "get_page_mmap" =>
        /\ Len(page_cache) <= CACHE_LIMIT
        /\ \A path \in ret.arg :
              pages[path] # <<>> => ret.ok /\ path \in Cached(page_cache)

\* C6 witness: a miss on a full cache has evicted an entry.
C6_Witness ==
    /\ ret.op = "get_page_mmap" /\ ret.ok
    /\ Len(page_cache) = CACHE_LIMIT
    /\ Len(recency) > CACHE_LIMIT

\* The place of path in the recency order: the higher, the more recent.
Rank(rc, path) == CHOOSE k \in 1..Len(rc) : rc[k] = path

\* C7: a hit keeps the cached pages and the open mappings as they are and
\* makes the page the most recently used; a miss that finds CACHE_LIMIT
\* entries removes exactly one, the cached page whose latest request is the
\* oldest, and closes it; and the cache is kept in the order of the latest
\* requests.
C7_LruEviction ==
    [][(nreq' = nreq + 1 /\ ret'.ok) =>
        LET path   == CHOOSE q \in ret'.arg : TRUE
            before == Cached(page_cache)
            after  == Cached(page_cache')
            victim == CHOOSE q \in before :
                         \A o \in before : Rank(recency, q) <= Rank(recency, o)
        IN  /\ IF path \in before
               THEN after = before /\ open_maps' = open_maps
               ELSE IF Len(page_cache) = CACHE_LIMIT
               THEN /\ after = (before \cup {path}) \ {victim}
                    /\ open_maps' = (open_maps \cup {path}) \ {victim}
               ELSE /\ after = before \cup {path}
                    /\ open_maps' = open_maps \cup {path}
            /\ Len(page_cache') = Cardinality(after)
            /\ \A i, j \in 1..Len(page_cache') :
                  i < j => Rank(recency', page_cache'[i].path)
                             < Rank(recency', page_cache'[j].path)
            /\ page_cache'[Len(page_cache')].path = path
    ]_vars

\* C7 witness: an eviction has happened and page 0, requested first and hit
\* again later, is still cached.
C7_Witness ==
    /\ Len(recency) > CACHE_LIMIT
    /\ 0 \in Cached(page_cache)
    /\ 1 \notin Cached(page_cache)

----------------------------------------------------------------------------
(* Claims about the node table register writes *)

\* The record at position i of the node table.
Node(i) == pages[PageNo(i)][(i % PAGE_SIZE) + 1]

\* The positions of the node table.
NodeIds == 0..(Count[1] - 1)

\* The ids of the nodes whose parent is p.
Children(p) == {i \in NodeIds \ {0} : Node(i).parentId = p}

\* C8: after register has completed on sorted input, for every node p with
\* children, following siblingId from p's first child visits every child of p
\* exactly once, in creation order, and after the last child comes a value
\* that is not the id of a child of p.
C8_SiblingChain ==
    pc = "done" =>
        \A p \in NodeIds :
            LET cs == SortedSeq(Children(p)) IN
            \A k \in 1..Len(cs) :
                IF k < Len(cs) THEN Node(cs[k]).siblingId = cs[k + 1]
                ELSE Node(cs[k]).siblingId \notin Children(p)

\* register has completed and a node two steps below the root has three
\* children (three sibling lines under one parent).
C8_Witness ==
    /\ pc = "done"
    /\ \E p \in NodeIds \ {0} :
          /\ Cardinality(Children(p)) = 3
          /\ Node(p).parentId # 0
          /\ Node(Node(p).parentId).parentId = 0

\* The records register has made so far: in the node table or in node_array.
AllRecords ==
    UNION {SeqRange(pages[p]) : p \in PageNos} \cup SeqRange(node_array)

RecById(i) == CHOOSE r \in AllRecords : r.id = i

\* C9: every node with id > 0 made by register has parentId < id and its
\* parent is a node made before it; the node of a line's first element has
\* the root 0 as parent and the node of a later element has the node of the
\* element before it as parent.
C9_ParentBeforeChild ==
    /\ \A r \in AllRecords :
          r.id > 0 => /\ r.parentId >= 0
                      /\ r.parentId < r.id
                      /\ \E q \in AllRecords : q.id = r.parentId
    /\ \A k \in 1..Len(open_nodes) :
          LET e == open_nodes[k] IN
          RecById(e.id).parentId =
              IF Len(e.key) = 1 THEN 0
              ELSE NodeId(open_nodes, Take(e.key, Len(e.key) - 1))

\* register has completed and has written a node whose parent is neither
\* the root nor the node made just before it.
C9_Witness ==
    /\ pc = "done"
    /\ \E i \in NodeIds : Node(i).parentId > 0 /\ Node(i).parentId < i - 1

----------------------------------------------------------------------------
(* Claims about the lines register reads *)

RECURSIVE PathOf(_)
\* The standardized "name;level" elements from the root down to node i.
PathOf(i) ==
    IF i = 0 THEN <<>>
    ELSE Append(PathOf(RecById(i).parentId),
                <<RecById(i).name_index, RecById(i).level>>)

\* The step reads one more line of the sorted text; last_line' is that line.
ReadsLine == nlines' = nlines + 1

\* The line read by this step has the standardized full path of an earlier
\* line of the region.  The text is sorted by that path first, so that the
\* lines of one path follow one another.
RepeatsPath == last_line # <<>> /\ Keys(last_line') = Keys(last_line)

\* C11: within the sorted text of a region, no two nodes have the same
\* standardized full path; a line with the priority marker whose full path is
\* that of an earlier line raises nothing, allocates no id and leaves
\* node_array, the open nodes, the queued changes and the node table as they
\* were; the first line of a path makes its node, with the name, x, y,
\* priority and note of that line.
C11_NoSecondNode ==
    /\ [](\A r, q \in AllRecords :
              r.id # q.id => PathOf(r.id) # PathOf(q.id))
    /\ [][ReadsLine /\ ParseLine(last_line').ok /\ Keys(last_line') # <<>> =>
             IF RepeatsPath
             THEN /\ pc' = "lines"
                  /\ UNCHANGED <<cur_id, node_array, open_nodes, prev_key,
                                 update_array, pages, cfg_file, cfg_cache>>
             ELSE /\ pc' = "lines"
                  /\ cur_id' > cur_id
                  /\ LET ps == ParseLine(last_line')
                         nd == RecById(cur_id)'
                     IN  /\ PathOf(cur_id)' = Keys(last_line')
                         /\ nd.name = ps.names[Len(ps.names)].s
                         /\ nd.x = ps.x /\ nd.y = ps.y
                         /\ nd.priority = ps.priority
                         /\ nd.note = ps.note]_vars

\* A line was read and dropped whose path is that of the node made last and
\* whose spelling, x, y, priority and note all differ from that node's.
C11_Witness ==
    /\ pc = "lines"
    /\ nlines >= 2
    /\ ParseLine(last_line).ok
    /\ cur_id > 0
    /\ PathOf(cur_id) = Keys(last_line)
    /\ LET ps == ParseLine(last_line)
           nd == RecById(cur_id)
       IN  /\ nd.name # ps.names[Len(ps.names)].s
           /\ nd.x # ps.x /\ nd.y # ps.y
           /\ nd.priority # ps.priority
           /\ nd.note # ps.note

\* Every record with id > 0 of the node table has a siblingId v with
\* id < v <= count().
AllClosed ==
    \A i \in NodeIds \ {0} :
        Node(i).siblingId > i /\ Node(i).siblingId <= Count[1]

\* C12: register goes on until it has raised or has returned with every
\* record with id > 0 of the node table carrying a siblingId v with
\* id < v <= count(); it never returns otherwise.  After write_database of a
\* region no node is open and every queued change is in the record of the
\* node table it was queued for.
C12_SiblingAssigned ==
    /\ <>(pc = "failed" \/ (pc = "done" /\ AllClosed))
    /\ [](pc = "done" => AllClosed)
    /\ [](pc \in {"targets", "done"} =>
            /\ open_nodes = <<>>
            /\ \A t \in DOMAIN update_array :
                  \E r \in AllRecords :
                      r.id = t /\ r.siblingId = update_array[t].siblingId)

\* register has returned; one record got its siblingId through update_array
\* and another one while it was still in node_array.
C12_Witness ==
    /\ pc = "done"
    /\ DOMAIN update_array # {}
    /\ \E i \in NodeIds \ {0} : i \notin DOMAIN update_array

\* The orders a list of n lines can be read in.
Perms(n) == {f \in [1..n -> 1..n] : \A i, j \in 1..n : f[i] = f[j] => i = j}

\* C13: register leaves the same node table (the same records at the same
\* positions, the same length) for every order in which the lines of the
\* region are read before sort_data sorts them, and the table the run leaves
\* is the one Register computes from the lines as read.
C13_Deterministic ==
    /\ pc = "targets" /\ targets = 1 =>
          \A f \in Perms(Len(records)) :
              Register([i \in 1..Len(records) |-> records[f[i]]])
                  = Register(records)
    /\ pc = "done" =>
          Register(records) =
              [ok |-> TRUE, pages |-> pages, cfg_file |-> cfg_file]

\* register has returned on three lines that were read in another order than
\* the sorted one, two of them with one standardized path and different
\* coordinates, the one that sorts later read first.
C13_Witness ==
    /\ pc = "done"
    /\ Len(records) = 3
    /\ records # tmp_text
    /\ \E i, j \in 1..3 :
          /\ i < j
          /\ Keys(records[i]) = Keys(records[j])
          /\ ParseLine(records[i]).x # ParseLine(records[j]).x
          /\ ~SortLeq(records[i], records[j])

\* The fields of a line behind its address elements and its priority marker.
Payload(args) ==
    LET IsRest(k) == \A i \in (k + 1)..Len(args) : ~IsAddress(args[i])
        k == CHOOSE k \in 0..Len(args) :
                 IsRest(k) /\ (k = 0 \/ IsAddress(args[k]))
        rest == Drop(args, k)
    IN  IF rest # <<>> /\ rest[1].t = "pri" THEN Tail(rest) ELSE rest

\* The line has too few fields: no address element, or less than x and y.
TooFewFields(args) ==
    \/ args = <<>>
    \/ ~IsAddress(args[1])
    \/ Len(Payload(args)) < 2

\* The line has a field that is not a number where x or y is required.
NonNumeric(args) ==
    /\ Len(Payload(args)) >= 2
    /\ ~(IsFloat(Payload(args)[1]) /\ IsFloat(Payload(args)[2]))

\* C14: a line with too few fields, or with a field that is not a number in
\* the place of x or y, makes process_line raise: register stops there (no
\* later line is read), and the line allocates no id and adds no record.
C14_MalformedRaises ==
    [][/\ ReadsLine /\ (TooFewFields(last_line') \/ NonNumeric(last_line')) =>
            /\ pc' = "failed"
            /\ UNCHANGED <<cur_id, node_array, pages, cfg_file, cfg_cache>>
       /\ pc = "failed" => pc' = "failed"]_vars

\* The number of address elements a line starts with.
NameCount(args) ==
    CHOOSE k \in 0..Len(args) :
        /\ \A i \in 1..k : IsAddress(args[i])
        /\ k < Len(args) => ~IsAddress(args[k + 1])

\* A well-formed line without the priority marker: address elements, x, y
\* and possibly a note that is not a number.
Unmarked(args) ==
    LET k == NameCount(args) IN
    /\ k >= 1
    /\ Len(args) \in {k + 2, k + 3}
    /\ IsFloat(args[k + 1]) /\ IsFloat(args[k + 2])
    /\ Len(args) = k + 3 => args[k + 3].t = "text"

\* The same line with the marker "!01" behind its address elements.
WithMarker(args) ==
    Take(args, NameCount(args)) \o <<Pri(1)>> \o Drop(args, NameCount(args))

\* C15: a well-formed line without the priority marker is processed without
\* error, and allocates the ids and makes the records that the same line
\* with a marker makes, apart from the priority of the records.
C15_MarkerOptional ==
    [][ReadsLine /\ Unmarked(last_line') =>
          LET st == ProcessLine(RegState, WithMarker(last_line'))
              Same(r, q) == [r EXCEPT !.priority = 0] = [q EXCEPT !.priority = 0]
          IN  /\ pc' = "lines"
              /\ cur_id' = st.cur_id
              /\ open_nodes' = st.open_nodes
              /\ Len(node_array') = Len(st.node_array)
              /\ \A i \in 1..Len(st.node_array) :
                     Same(node_array'[i], st.node_array[i])
              /\ \A pg \in PageNos :
                     /\ Len(pages'[pg]) = Len(st.tbl.pages[pg])
                     /\ \A i \in 1..Len(st.tbl.pages[pg]) :
                            Same(pages'[pg][i], st.tbl.pages[pg][i])]_vars

\* C16: the note of a line is stored on the node made for its last element
\* alone: a record that a step makes for an earlier element has the empty
\* note, the record made last has the note of the line read, and no step
\* changes the note of a record made before.
C16_NoteOnLastOnly ==
    [][\A r \in AllRecords' :
          IF \E q \in AllRecords : q.id = r.id
          THEN r.note = RecById(r.id).note
          ELSE /\ ReadsLine
               /\ r.id < cur_id' => r.note = ""
               /\ r.id = cur_id' => r.note = ParseLine(last_line').note]_vars

\* register has returned; a two element line with a note made both its
\* nodes, the note is on the second one alone, and a later line went through
\* the first one to add another child.
C16_Witness ==
    /\ pc = "done"
    /\ \E r, q, c \in AllRecords :
          /\ r.note = "n" /\ r.parentId = q.id /\ q.id > 0
          /\ q.x = r.x /\ q.priority = r.priority /\ q.note = ""
          /\ c.parentId = q.id /\ c.id > r.id

----------------------------------------------------------------------------
(* Claims about the trie index *)

RECURSIVE NamePath(_)
\* The names from the child of the root down to node i of the node table.
NamePath(i) ==
    IF i = RootRecord.id THEN <<>>
    ELSE Append(NamePath(Node(i).parentId), Node(i).name)

\* The node ids index_table holds for a label; <<>>: no such label.
IdsOf(label) ==
    IF \E e \in SeqRange(index_table) : e.k = label
    THEN (CHOOSE e \in SeqRange(index_table) : e.k = label).nodes
    ELSE <<>>

\* C17: after _get_index_table, for every node of the node table with
\* 0 < level <= OAZA and every suffix of its name path, the id list of the
\* standardized suffix holds the node's id; and every id in index_table is
\* the id of a node with level <= OAZA.
C17_LabelsCoverCutoff ==
    pc = "extend" =>
        /\ \A v \in NodeIds \ {RootRecord.id} :
              Node(v).level <= OAZA =>
                  \A i \in 1..Len(NamePath(v)) :
                      v \in SeqRange(IdsOf(StandardizeLabel(
                                SubSeq(NamePath(v), i, Len(NamePath(v))))))
        /\ \A e \in SeqRange(index_table) :
              \A v \in SeqRange(e.nodes) : Node(v).level <= OAZA

\* C18: _set_index_table puts, for every label of index_table, the entry
\* {id: the label's trie id, nodes: the label's id list} at the index of the
\* trie id, and leaves no slot from 0 to the largest trie id unfilled; after
\* append_records the record at position t of the TrieNode table is that
\* entry of trie id t.
C18_TrieIdTable ==
    [][/\ (pc = "set" /\ pc' = "write") =>
            /\ \A e \in SeqRange(index_table) :
                  /\ trie[e.k] + 1 \in DOMAIN trie_nodes'
                  /\ trie_nodes'[trie[e.k] + 1] =
                         [id |-> trie[e.k], nodes |-> e.nodes]
            /\ \A t \in DOMAIN trie_nodes' :
                  /\ trie_nodes'[t] # None
                  /\ \E e \in SeqRange(index_table) : trie[e.k] = t - 1
       /\ (pc = "write" /\ pc' = "indexed") =>
            /\ trie_table'.length = Len(trie_nodes)
            /\ \A t \in 0..(Len(trie_nodes) - 1) :
                  /\ NodeAt(trie_table'.pages, t) = trie_nodes[t + 1]
                  /\ trie_nodes[t + 1].id = t]_vars

\* The TrieNode table of three or more labels is written, and the trie gave
\* the first label of index_table an id other than 0.
C18_Witness ==
    /\ pc = "indexed"
    /\ Len(trie_nodes) >= 3
    /\ trie_nodes[1].nodes # <<1>>
    /\ \E t \in DOMAIN trie_nodes : Len(trie_nodes[t].nodes) >= 2

\* C19: after _get_index_table and after _extend_index_table, no id list of
\* index_table holds the same node id twice.
C19_IdListsAreSets ==
    pc \in {"extend", "trie"} =>
        \A e \in SeqRange(index_table) :
            \A i, j \in DOMAIN e.nodes : e.nodes[i] = e.nodes[j] => i = j

(* Claims about the build *)

\* C20: whenever the dataset table is written, write_datasets has been
\* called once, after register and after create_index, and the table holds
\* one record per enabled converter, in their order, with the converter's
\* priority as id.
C20_DatasetsWrittenLast ==
    datasets # <<>> =>
        /\ Len(SelectSeq(calls, LAMBDA c : c = "write_datasets")) = 1
        /\ \E i, j \in DOMAIN calls :
              /\ calls[i] = "register" /\ calls[j] = "create_index"
              /\ \A k \in DOMAIN calls :
                    calls[k] = "write_datasets" => (i < k /\ j < k)
        /\ [i \in DOMAIN datasets |-> datasets[i].id] =
              [i \in DOMAIN converters |-> converters[i].priority]

----------------------------------------------------------------------------
(* Claims about the sibling fix-ups *)

\* C21: when a step of write_database closes an open node, the node's record
\* is changed in place exactly when it is still in node_array (the buffer
\* is not empty and its first id is not above the node's id) and is queued
\* in update_array as {siblingId} otherwise; the value is cur_id + 1 of the
\* moment of closing in both cases.  A queued entry stays as it is until
\* the end of the region, where every queued entry is in its record of the
\* node table; a siblingId once stored is never changed.
C21_InPlaceOrQueued ==
    [][/\ (pc = "lines" /\ pc' # "failed") =>
            \A t \in {open_nodes[k].id : k \in 1..Len(open_nodes)} :
                (\A j \in 1..Len(open_nodes') : open_nodes'[j].id # t) =>
                    IF Buffered(node_array, t)
                    THEN /\ t \notin DOMAIN update_array'
                         /\ RecById(t)'.siblingId = cur_id + 1
                    ELSE /\ t \in DOMAIN update_array'
                         /\ update_array'[t] = [siblingId |-> cur_id + 1]
                         /\ RecById(t).siblingId = 0
                         /\ pc' = "lines" => RecById(t)'.siblingId = 0
       /\ (pc = "lines" /\ pc' = "lines") =>
            \A t \in DOMAIN update_array :
                t \in DOMAIN update_array' /\ update_array'[t] = update_array[t]
       /\ (pc = "lines" /\ pc' = "targets") =>
            \A t \in DOMAIN update_array' :
                Node(t)'.siblingId = update_array'[t].siblingId
       /\ \A r \in AllRecords :
            r.siblingId # 0 => RecById(r.id)'.siblingId = r.siblingId]_vars

\* The first region has been read; one of its nodes got its siblingId
\* through update_array and another one, closed in place, is still in
\* node_array.
C21_Witness ==
    /\ pc = "targets"
    /\ targets > 0
    /\ DOMAIN update_array # {}
    /\ \E i \in 1..Len(node_array) : node_array[i].siblingId # 0

\* C22: no step of register removes a record it has made or changes a field
\* of it other than siblingId, in node_array or in the node table; no id is
\* carried by two different records; every entry of update_array has the
\* one key siblingId.
C22_OnlySiblingAmended ==
    [][/\ \A r \in AllRecords :
            \E q \in AllRecords' :
                q.id = r.id /\ [q EXCEPT !.siblingId = r.siblingId] = r
       /\ \A q1, q2 \in AllRecords' : q1.id = q2.id => q1 = q2
       /\ \A t \in DOMAIN update_array' :
            DOMAIN update_array'[t] = {"siblingId"}]_vars

\* A region is being read; a record of the node table has been closed and
\* waits in update_array, and a record made later, two levels below the
\* root, is in node_array.
C22_Witness ==
    /\ pc = "lines"
    /\ DOMAIN update_array # {}
    /\ \E i \in 1..Len(node_array) :
          /\ node_array[i].parentId # 0
          /\ \A t \in DOMAIN update_array : t < node_array[i].id

----------------------------------------------------------------------------
(* Claims about the sort and the fields of a line *)

\* C23: in the text sort_data writes, of two lines with the same
\* standardized path the one with the lower priority value comes first,
\* however the lines spell their element names.
C23_LowerPriorityFirst ==
    \A i, j \in DOMAIN tmp_text :
        (i < j /\ Keys(tmp_text[i]) = Keys(tmp_text[j])) =>
            ParseLine(tmp_text[i]).priority <= ParseLine(tmp_text[j]).priority

\* A line "names...,!PP,X,Y,NOTE": one or more elements, the marker, two
\* numbers and one more field of any kind.
WithNote(args) ==
    LET n == Len(args) IN
    /\ n >= 5
    /\ \A i \in 1..(n - 4) : args[i].t = "elem"
    /\ args[n - 3].t = "pri"
    /\ args[n - 2].t = "num" /\ args[n - 1].t = "num"

\* A line "names...,!PP,X,Y".
WithoutNote(args) ==
    LET n == Len(args) IN
    /\ n >= 4
    /\ \A i \in 1..(n - 3) : args[i].t = "elem"
    /\ args[n - 2].t = "pri"
    /\ args[n - 1].t = "num" /\ args[n].t = "num"

\* The text of a field that is taken as a note.
NoteText(tok) == IF tok.t = "num" THEN ToString(tok.n) ELSE tok.s

\* C24: process_line accepts every line "names...,!PP,X,Y,NOTE", whatever
\* NOTE is, and every line "names...,!PP,X,Y"; when the line makes nodes, the
\* deepest one has the name and level of the last field before the marker,
\* x = X, y = Y, and NOTE, or no text, as note.
C24_FieldsParsed ==
    [][ReadsLine =>
        LET args == last_line'
            n == Len(args)
            nd == CHOOSE r \in AllRecords' : r.id = cur_id'
        IN  /\ WithNote(args) =>
                 /\ pc' # "failed"
                 /\ cur_id' > cur_id =>
                        /\ nd.name = args[n - 4].s /\ nd.level = args[n - 4].n
                        /\ nd.x = args[n - 2].n /\ nd.y = args[n - 1].n
                        /\ nd.note = NoteText(args[n])
            /\ WithoutNote(args) =>
                 /\ pc' # "failed"
                 /\ cur_id' > cur_id =>
                        /\ nd.name = args[n - 3].s /\ nd.level = args[n - 3].n
                        /\ nd.x = args[n - 1].n /\ nd.y = args[n].n
                        /\ nd.note = ""]_vars

----------------------------------------------------------------------------
(* Claims about retrieve_records *)

\* What retrieve_records(limit, offset) yields and whether it ends without
\* raising, when called in the current state.
Retrieve(limit, offset) ==
    RetrieveRecords(pages, cfg_cache, cfg_file, limit, offset)

\* The records get_record returns for the positions from..(to - 1); <<>>
\* for a position where it raises.
GetRange(from, to) ==
    [k \in 1..(to - from) |-> Read(from + k - 1).val]

\* C25: in a table with count() records, retrieve_records(limit, offset)
\* with offset + limit <= count() ends without raising and yields the
\* records get_record returns for offset, ..., offset + limit - 1, in this
\* order; with limit omitted it ends without raising and yields those of
\* offset, ..., count() - 1; an omitted offset is the offset 0.
C25_RetrieveMatchesGet ==
    Count # <<>> =>
        \A offset \in ReadArgs :
            LET off == IF offset = <<>> THEN 0 ELSE offset[1] IN
            off <= Count[1] =>
                /\ \A n \in 0..(Count[1] - off) :
                      /\ Retrieve(<<n>>, offset).ok
                      /\ [k \in 1..n |-> <<Retrieve(<<n>>, offset).out[k]>>] =
                            GetRange(off, off + n)
                /\ Retrieve(<<>>, offset).ok
                /\ [k \in 1..Len(Retrieve(<<>>, offset).out) |->
                        <<Retrieve(<<>>, offset).out[k]>>] =
                      GetRange(off, Count[1])

----------------------------------------------------------------------------
(* Claims about fix-ups without a target *)

\* write_database after the last line of a region, with no node open and
\* the changes updates queued, on the table as it is now.
ClosesWith(updates) ==
    CloseRegion([ok |-> TRUE, page_size |-> PAGE_SIZE, cur_id |-> 0,
                 node_array |-> <<>>,
                 open_nodes |-> <<>>, prev_key |-> <<>>,
                 update_array |-> updates,
                 tbl |-> [ok |-> TRUE, pages |-> pages,
                          cfg_cache |-> cfg_cache, cfg_file |-> cfg_file]])

\* C26: update_records given a position that no page file holds (the file
\* is missing, or the index is beyond its records) raises, and so does the
\* end of write_database when such a position is queued; a call of
\* update_records that came to a missing page file has raised.
C26_MissingTargetRaises ==
    /\ [](\A updates \in UpdateInputs :
            (\E pos \in DOMAIN updates : At(pages, pos) = <<>>) =>
                /\ ~UpdateRecords(pages, cfg_cache, cfg_file, updates).ok
                /\ ~ClosesWith(updates).ok)
    /\ [][(ret'.op = "update_records" /\ \E p \in ret'.arg : pages[p] = <<>>)
            => ~ret'.ok]_vars

\* update_records has raised on a call whose positions lie in a page file
\* that exists and in one that does not.
C26_Witness ==
    /\ ret.op = "update_records"
    /\ ~ret.ok
    /\ \E p, q \in ret.arg : pages[p] = <<>> /\ pages[q] # <<>>

----------------------------------------------------------------------------
(* Claims about ids, positions and subtrees *)

\* C27: the record at position p of the node table has id p; node_array
\* holds fewer than PAGE_SIZE records, whose ids are consecutive and end
\* with cur_id; the node table holds the records 0 .. cur_id that are not
\* in node_array while register runs, and all of them, count() = cur_id + 1,
\* when it has returned.
C27_PositionIsId ==
    /\ \A p \in PageNos :
          \A k \in 1..Len(pages[p]) : pages[p][k].id = p * PAGE_SIZE + k - 1
    /\ \A p \in PageNos :
          Len(pages[p]) = Max(0, Min(PAGE_SIZE, Count[1] - p * PAGE_SIZE))
    /\ Len(node_array) < PAGE_SIZE
    /\ \A k \in 1..Len(node_array) :
          node_array[k].id = cur_id - Len(node_array) + k
    /\ Count[1] = IF pc = "done" THEN cur_id + 1
                  ELSE cur_id + 1 - Len(node_array)

\* register has returned; the node table has more than two pages, the last
\* of them written from the records left in node_array.
C27_Witness ==
    /\ pc = "done"
    /\ cur_id >= 2 * PAGE_SIZE
    /\ node_array # <<>>
    /\ Node(cur_id) = node_array[Len(node_array)]

RECURSIVE Below(_, _)
\* Node m of the node table lies in the subtree under node n.
Below(m, n) ==
    m # RootRecord.id /\ (Node(m).parentId = n \/ Below(Node(m).parentId, n))

\* C28: after register has returned, for every node n with id > 0 the
\* nodes in the subtree under n are the nodes with n.id < id < n.siblingId,
\* and n.siblingId is at most count(); regions make no difference.
C28_SiblingSkipsSubtree ==
    pc = "done" =>
        \A n \in NodeIds \ {RootRecord.id} :
            /\ Node(n).siblingId <= Count[1]
            /\ {m \in NodeIds : Below(m, n)} =
                  {m \in NodeIds : n < m /\ m < Node(n).siblingId}

\* register has returned; a node of the first region has a child and a
\* grandchild, and its siblingId is the id of the first node of the second
\* region.
C28_Witness ==
    /\ pc = "done"
    /\ \E n \in NodeIds \ {RootRecord.id} :
          /\ \E m \in NodeIds : Below(m, n) /\ Node(m).parentId # n
          /\ Node(n).siblingId < Count[1]
          /\ Node(Node(n).siblingId).parentId = RootRecord.id
          /\ Node(n).siblingId \notin DOMAIN update_array
          /\ n \notin DOMAIN update_array

\* The records of the node table in the order of their positions.
StoredRecords == [i \in 1..Count[1] |-> Node(i - 1)]

\* C29: the node table register leaves holds, position by position, the
\* records of a build of the same lines in which no record leaves
\* node_array before the end, so that every siblingId is written in place
\* and nothing is queued.
C29_FlushTimingIrrelevant ==
    pc = "index" =>
        LET b == BufferedRun(records) IN
        /\ b.ok
        /\ b.update_array = <<>>
        /\ StoredRecords = b.node_array

\* register has returned from a build that queued the siblingId of two or
\* more records and wrote that of another record in place.
C29_Witness ==
    /\ pc = "index"
    /\ Cardinality(DOMAIN update_array) >= 2
    /\ \E i \in NodeIds \ {RootRecord.id} : i \notin DOMAIN update_array


RECURSIVE Turns(_, _, _, _, _)
\* The positions at which the while loop that goes from pos to
\* Step(pgs, pos) makes a turn, on the node table pgs of n records.
Turns(Step(_, _), pgs, n, pos, seen) ==
    IF pos >= n \/ pos \in seen THEN seen
    ELSE Turns(Step, pgs, n, Step(pgs, pos), seen \cup {pos})

\* C30: on every node table register produces, each turn of the while
\* loops of _get_index_table and _extend_index_table ends with a pos
\* greater than the one it began with, and _extend_index_table returns.
C30_ScansAdvance ==
    /\ pc \in {"index", "extend"} =>
          /\ \A pos \in Turns(OazaNext, pages, Count[1], RootRecord.id + 1, {}) :
                  OazaNext(pages, pos) > pos
          /\ \A pos \in Turns(CityNext, pages, Count[1], RootRecord.id + 1, {}) :
                  CityNext(pages, pos) > pos
    /\ pc # "scanning"

====
